---- MODULE Spec2Model ----
(***************************************************************************)
(* Conversation orchestration and tool dispatch of the chat route          *)
(* (src/unnamed/part_000), with the provider client (src/lib/mistral.ts),  *)
(* the calculation engine (src/unnamed/part_004) and the parameter         *)
(* extractor (src/unnamed/part_005).                                       *)
(*                                                                         *)
(* JavaScript runs one callback at a time, so every action below is one    *)
(* run-to-completion segment of POST: the code between two awaits.         *)
(*                                                                         *)
(* Representation.  Text is a sequence of strings (the characters of a     *)
(* provider text, the words of a caller's message).  Money is              *)
(* an integer number of AED, a percentage an integer multiplication        *)
(* followed by \div 100, an interest rate an integer count of 1/RateScale. *)
(* A parsed argument payload is a function from field names to integers    *)
(* (a field that is absent is not in its domain), or JsNull.  A raw        *)
(* argument payload is a record saying whether JSON.parse accepts it, and  *)
(* what it yields.  An optional number is Some(v) or Undefined; a number   *)
(* that may be NaN or infinite is a JavaScript value record.               *)
(***************************************************************************)
EXTENDS Bags, Integers, Sequences, FiniteSets, TLC

\* ------------------------------------------------------------------ bounds
\* requests per behaviour, for each of the workloads below
TurnRequests == 1
RaceRequests == 2
LongRequests == 3
RetagRequests == 2
\* number of tool invocations in one round-1 provider response, and in the
\* workloads that keep it small
MaxCalls == 2
RaceCalls == 1
\* requests, and invocations in one response, of the "burst" workload
BurstRequests == 1
BurstCalls == 11
\* length of the longest round-1 content without invocations
MaxTextLen == 21
\* number of network chunks the provider delivers on one round-2 stream
MaxNetChunks == 1
\* the same, of the "stream" workload
StreamReads == 2

\* ------------------------------------------------------- program constants
CONTEXT_WINDOW == 10
CHUNK_SIZE == 10
MAX_LTV_PCT == 80
MIN_DOWN_PAYMENT_PCT == 20
UPFRONT_COST_PCT == 7
RateScale == 100 * 1000
INTEREST_RATE == 4500
MAX_TENURE == 25
DEFAULT_STAY == 5
RENT_BELOW == 3
BUY_ABOVE == 5

\* --------------------------------------------------------------- universes
Keys == {"k1", "k2"}
Slots == {1, 2}
Scenarios == {"buy-vs-rent", "refinance-check"}

\* ---------------------------------------------------------------- messages
Msg(role, content, tool_calls, tool_call_id, name) ==
  [role |-> role, content |-> content, tool_calls |-> tool_calls,
   tool_call_id |-> tool_call_id, name |-> name]

SystemMessage(content) == Msg("system", content, <<>>, 0, "")
UserMessage(content) == Msg("user", content, <<>>, 0, "")
AssistantCallsMessage(content, calls) == Msg("assistant", content, calls, 0, "")
\* the content of a tool turn is JSON text: a tag and the value it encodes
ToolMessage(call, result) == Msg("tool", <<"json", result>>, <<>>, call.id, call.name)
FinalAssistantMessage(content) == Msg("assistant", content, <<>>, 0, "")

getSystemPrompt(scenario) ==
  IF scenario = "buy-vs-rent" THEN <<"P", "b">> ELSE <<"P", "r">>

getAvailableTools(scenario) ==
  IF scenario = "buy-vs-rent"
  THEN <<"calculate_mortgage", "analyze_buy_vs_rent">>
  ELSE <<"calculate_refinance">>

\* ---------------------------------------------------------------- helpers
Min(a, b) == IF a < b THEN a ELSE b
Max(a, b) == IF a > b THEN a ELSE b

\* the value of a singleton set; binding a value in a singleton evaluates it
\* once
The(S) == CHOOSE v \in S : TRUE

\* -------------------------------------------------- binary64 arithmetic
\* A JavaScript number that is not a whole amount is an IEEE-754 double.  A
\* natural number of any size is a sequence of digits in base Radix, least
\* significant first, <<>> being zero; a non-negative double is m * 2^e with
\* m of MantissaBits bits, or zero.  Every operation is the exact result
\* rounded to nearest, ties to even, as the standard defines it.
Radix == 2 ^ 15
DigitBits == 15
MantissaBits == 53
\* bits after the point of the fixed point Math.pow is computed in
PowBits == 60

Digit(a, i) == IF 1 <= i /\ i <= Len(a) THEN a[i] ELSE 0

\* the digits listed without the leading zeros
BigTrim(listed) ==
  LET a == listed \o <<>>
      used == {i \in 1..Len(a) : a[i] # 0}
  IN IF used = {} THEN <<>>
     ELSE SubSeq(a, 1, CHOOSE i \in used : \A j \in used : j <= i)

\* 0 <= n < 2^31
BigFromInt(n) == BigTrim(<<n % Radix, (n \div Radix) % Radix, n \div (Radix * Radix)>>)
\* the value of a, below 2^31
BigToInt(a) == Digit(a, 1) + Radix * Digit(a, 2) + Radix * Radix * Digit(a, 3)

\* whether the digit sums below position i carry into it: some position
\* overflows and every one between it and i is full
CarryInto(sums, i) ==
  \E j \in 1..(i - 1) :
    sums[j] >= Radix /\ \A l \in (j + 1)..(i - 1) : sums[l] = Radix - 1

BigAdd(a, b) ==
  IF a = <<>> THEN b
  ELSE IF b = <<>> THEN a
  ELSE LET n == Max(Len(a), Len(b))
           sums == [i \in 1..(n + 1) |-> Digit(a, i) + Digit(b, i)] \o <<>>
       IN BigTrim([i \in 1..(n + 1) |->
                     (sums[i] + (IF CarryInto(sums, i) THEN 1 ELSE 0)) % Radix])

\* whether the digit differences below position i borrow from it
BorrowFrom(diffs, i) ==
  \E j \in 1..(i - 1) :
    diffs[j] < 0 /\ \A l \in (j + 1)..(i - 1) : diffs[l] = 0

\* a - b for a >= b
BigSub(a, b) ==
  IF a = b THEN <<>>
  ELSE LET diffs == [i \in 1..Len(a) |-> a[i] - Digit(b, i)] \o <<>>
       IN BigTrim([i \in 1..Len(a) |->
                     (diffs[i] - (IF BorrowFrom(diffs, i) THEN 1 ELSE 0) + Radix) % Radix])

\* -1, 0, 1 as a < b, a = b, a > b, for trimmed a and b
BigCmp(a, b) ==
  IF Len(a) < Len(b) THEN -1
  ELSE IF Len(a) > Len(b) THEN 1
  ELSE IF a = b THEN 0
  ELSE LET differ == {i \in 1..Len(a) : a[i] # b[i]}
           top == CHOOSE i \in differ : \A j \in differ : j <= i
       IN IF a[top] < b[top] THEN -1 ELSE 1

BigShiftLeft(a, bits) ==
  IF a = <<>> THEN <<>>
  ELSE LET whole == bits \div DigitBits
           part == bits % DigitBits
       IN BigTrim([i \in 1..(Len(a) + whole + 1) |->
                     ((Digit(a, i - whole) * 2 ^ part) % Radix)
                     + (Digit(a, i - whole - 1) \div 2 ^ (DigitBits - part))])

\* floor(a / 2^bits)
BigShiftRight(a, bits) ==
  IF a = <<>> THEN <<>>
  ELSE LET whole == bits \div DigitBits
           part == bits % DigitBits
       IN BigTrim([i \in 1..(Len(a) - whole) |->
                     (Digit(a, i + whole) \div 2 ^ part)
                     + ((Digit(a, i + whole + 1) % 2 ^ part) * 2 ^ (DigitBits - part))])

\* whether one of the lowest bits of a is set
LowBitsSet(a, bits) ==
  \/ (Digit(a, bits \div DigitBits + 1) % 2 ^ (bits % DigitBits)) # 0
  \/ \E i \in 1..Min(bits \div DigitBits, Len(a)) : a[i] # 0

\* bit i of a, bit 0 being the lowest
Bit(a, i) == (Digit(a, i \div DigitBits + 1) \div (2 ^ (i % DigitBits))) % 2

SmallBitLen(n) == CHOOSE k \in 0..DigitBits : n < 2 ^ k /\ (k = 0 \/ n >= 2 ^ (k - 1))
BitLen(a) == IF a = <<>> THEN 0 ELSE DigitBits * (Len(a) - 1) + SmallBitLen(a[Len(a)])

\* a * k for 0 <= k < Radix: the low halves of the digit products, and the
\* high halves one position up
BigMulSmall(a, k) ==
  IF a = <<>> \/ k = 0 THEN <<>>
  ELSE BigAdd(BigTrim([i \in 1..Len(a) |-> (a[i] * k) % Radix]),
              BigTrim([i \in 1..(Len(a) + 1) |->
                         IF i = 1 THEN 0 ELSE (a[i - 1] * k) \div Radix]))

\* the sum of a sequence of naturals: the size of the bag that holds i once
\* more than s[i] times, less one for each i
Sum(s) == BagCardinality([i \in DOMAIN s |-> s[i] + 1]) - Len(s)

\* the product by columns: the low halves of the digit products of column c
\* and the high halves of those of column c - 1, summed, and the carries
\* added
BigMul(a, b) ==
  IF a = <<>> \/ b = <<>> THEN <<>>
  ELSE LET n == Len(a) + Len(b)
           prod(i, c) == Digit(a, i) * Digit(b, c - i + 1)
           cols == [c \in 1..n |->
                      Sum([i \in 1..Len(a) |->
                             (prod(i, c) % Radix) + (prod(i, c - 1) \div Radix)])] \o <<>>
       IN BigAdd(BigTrim([c \in 1..n |-> cols[c] % Radix]),
                 BigTrim([c \in 1..(n + 1) |->
                            IF c = 1 THEN 0 ELSE cols[c - 1] \div Radix]))

\* the digit q with q * b <= cur < (q + 1) * b, for cur < Radix * b and the
\* top digit of b at least Radix / 2: at most two below the quotient of the
\* leading digits
DivDigit(cur, b) ==
  LET n == Len(b)
      estimate == Min((Digit(cur, n + 1) * Radix + Digit(cur, n)) \div b[n], Radix - 1)
  IN CHOOSE q \in (estimate - 2)..estimate :
       /\ q >= 0
       /\ BigCmp(BigMulSmall(b, q), cur) <= 0
       /\ BigCmp(BigMulSmall(b, q + 1), cur) > 0

\* one step of the long division: the next digit of a is brought down to
\* the remainder, and the next digit of the quotient taken out of it
DivStepBy(quotient, cur, b, q) ==
  [q |-> <<q>> \o quotient, r |-> BigSub(cur, BigMulSmall(b, q))]
DivStepOn(quotient, cur, b) == DivStepBy(quotient, cur, b, DivDigit(cur, b))
DivStep(sofar, digit, b) == DivStepOn(sofar.q, BigTrim(<<digit>> \o sofar.r), b)

RECURSIVE DivFrom(_, _, _, _)
\* the long division of a by b once the digits down to i are brought down,
\* the highest ones of them being the first remainder; the set of the one
\* result
DivFrom(a, b, i, highest) ==
  IF i > Len(a) - highest
  THEN {[q |-> <<>>, r |-> SubSeq(a, Len(a) - highest + 1, Len(a))]}
  ELSE {DivStep(sofar, a[i], b) : sofar \in DivFrom(a, b, i + 1, highest)}

\* quotient and remainder of a by b, b # 0: long division of both shifted
\* to bring the top digit of b to at least Radix / 2
DivNormalized(wide, under, shift) ==
  The({[q |-> BigTrim(result.q), r |-> BigShiftRight(result.r, shift)] :
         result \in DivFrom(wide, under, 1, Min(Len(under) - 1, Len(wide)))})
DivShifted(a, b, shift) ==
  DivNormalized(BigShiftLeft(a, shift), BigShiftLeft(b, shift), shift)
BigDivMod(a, b) == DivShifted(a, b, DigitBits - SmallBitLen(b[Len(b)]))

\* a finite double: (-1)^neg * m * 2^e
Double(neg, m, e) == [k |-> "number", neg |-> neg, m |-> m, e |-> e]
Zero == Double(FALSE, <<>>, 0)
NaN == [k |-> "NaN", neg |-> FALSE, m |-> <<>>, e |-> 0]
Infinity == [k |-> "Infinity", neg |-> FALSE, m |-> <<>>, e |-> 0]
JsNull == [k |-> "null", neg |-> FALSE, m |-> <<>>, e |-> 0]
IsZero(x) == x.m = <<>>
FNeg(x) == IF IsZero(x) THEN x ELSE [x EXCEPT !.neg = ~@]

\* the double nearest to (-1)^neg * n * 2^e, or to a magnitude just above
\* n * 2^e when sticky: the bits below the mantissa are dropped, and the
\* mantissa goes up when they are more than half a unit, or half a unit and
\* the mantissa is odd
RoundsUp(n, drop, sticky, floor) ==
  Bit(n, drop - 1) = 1 /\ (sticky \/ LowBitsSet(n, drop - 1) \/ Bit(floor, 0) = 1)
Normalized(neg, m, e) ==
  IF BitLen(m) > MantissaBits THEN Double(neg, BigShiftRight(m, 1), e + 1)
  ELSE Double(neg, m, e)
RoundedFrom(neg, n, e, sticky, drop, floor) ==
  Normalized(neg,
             IF RoundsUp(n, drop, sticky, floor) THEN BigAdd(floor, <<1>>) ELSE floor,
             e + drop)
RoundedDropping(neg, n, e, sticky, drop) ==
  IF drop <= 0 THEN Double(neg, BigShiftLeft(n, -drop), e + drop)
  ELSE RoundedFrom(neg, n, e, sticky, drop, BigShiftRight(n, drop))
FRound(neg, n, e, sticky) ==
  IF n = <<>> THEN Zero
  ELSE RoundedDropping(neg, n, e, sticky, BitLen(n) - MantissaBits)

\* a whole number -2^31 < n < 2^31 as a double
FFromInt(n) == FRound(n < 0, BigFromInt(IF n < 0 THEN -n ELSE n), 0, FALSE)

\* both mantissas over the smaller of the two exponents
Aligned(x, y) ==
  LET e == IF IsZero(x) THEN y.e ELSE IF IsZero(y) THEN x.e ELSE Min(x.e, y.e)
  IN [x |-> IF IsZero(x) THEN <<>> ELSE BigShiftLeft(x.m, x.e - e),
      y |-> IF IsZero(y) THEN <<>> ELSE BigShiftLeft(y.m, y.e - e),
      e |-> e]

\* -1, 0, 1 as x < y, x = y, x > y
CmpAligned(neg, a) == IF neg THEN BigCmp(a.y, a.x) ELSE BigCmp(a.x, a.y)
FCmp(x, y) ==
  IF IsZero(x) /\ IsZero(y) THEN 0
  ELSE IF IsZero(x) THEN (IF y.neg THEN 1 ELSE -1)
  ELSE IF IsZero(y) THEN (IF x.neg THEN -1 ELSE 1)
  ELSE IF x.neg # y.neg THEN (IF x.neg THEN -1 ELSE 1)
  ELSE CmpAligned(x.neg, Aligned(x, y))
FLess(x, y) == FCmp(x, y) < 0

\* the magnitude of a - b
BigAbsDiff(a, b) == IF BigCmp(a, b) >= 0 THEN BigSub(a, b) ELSE BigSub(b, a)
\* the sum of two aligned doubles of signs xneg and yneg: the magnitudes are
\* added, or the smaller is taken from the larger, whose sign the result has
Combined(xneg, yneg, a) ==
  FRound(IF xneg = yneg THEN xneg ELSE xneg # (BigCmp(a.x, a.y) < 0),
         IF xneg = yneg THEN BigAdd(a.x, a.y) ELSE BigAbsDiff(a.x, a.y),
         a.e, FALSE)
FAdd(x, y) == Combined(x.neg, y.neg, Aligned(x, y))
FSub(x, y) == Combined(x.neg, ~y.neg, Aligned(x, y))
FMul(x, y) ==
  IF IsZero(x) \/ IsZero(y) THEN Zero
  ELSE FRound(x.neg # y.neg, BigMul(x.m, y.m), x.e + y.e, FALSE)
\* x / y for y # 0: the quotient of the mantissas to two bits more than a
\* mantissa holds, and whether a remainder is left
RoundedQuotient(neg, wide, e) == FRound(neg, wide.q, e, wide.r # <<>>)
FDiv(x, y) ==
  IF IsZero(x) THEN Zero
  ELSE RoundedQuotient(x.neg # y.neg,
                       BigDivMod(BigShiftLeft(x.m, MantissaBits + 2), y.m),
                       x.e - y.e - (MantissaBits + 2))

\* ------------------------------------------------------ JavaScript values
Some(v) == [def |-> TRUE, v |-> v]
Undefined == [def |-> FALSE, v |-> 0]
OrDefault(opt, d) == IF opt.def THEN opt.v ELSE d

Has(args, f) == f \in DOMAIN args
\* JavaScript truthiness of args.f for integer-valued or absent fields
Truthy(args, f) == Has(args, f) /\ args[f] # 0
Field(args, f) == IF Has(args, f) THEN Some(args[f]) ELSE Undefined

\* -------------------------------------------------------------- engine
\* Amounts in a request are whole numbers of AED and rates whole numbers of
\* 1/RateScale; every amount the engine derives is a double.
MAX_LTV == FDiv(FFromInt(MAX_LTV_PCT), FFromInt(100))
MIN_DOWN_PAYMENT == FDiv(FFromInt(MIN_DOWN_PAYMENT_PCT), FFromInt(100))
UPFRONT_COST_PERCENTAGE == FDiv(FFromInt(UPFRONT_COST_PCT), FFromInt(100))

\* 1 in fixed point, PowBits bits after the point
FixedOne == BigShiftLeft(<<1>>, PowBits)
\* the product of two fixed point numbers
FixedMul(a, b) == BigShiftRight(BigMul(a, b), PowBits)

\* 1 + annualInterestRate / 12 in fixed point
MonthlyGrowth(annualInterestRate) ==
  BigAdd(FixedOne,
         BigDivMod(BigShiftLeft(BigFromInt(annualInterestRate), PowBits),
                   BigFromInt(RateScale * 12)).q)

RECURSIVE Powers(_, _)
\* base to the power n by repeated squaring; the set of the one result
Powers(base, n) ==
  IF n = 0 THEN {FixedOne}
  ELSE {IF n % 2 = 0 THEN FixedMul(half, half) ELSE FixedMul(FixedMul(half, half), base) :
          half \in Powers(base, n \div 2)}

\* Math.pow(base, n) in fixed point
PowFixed(base, n) == The(Powers(base, n))

\* Math.round(emi * 100) for the amortization formula: the numerator and the
\* denominator of emi * 100 as whole numbers, then the quotient rounded half
\* up.  The intermediate roundings of the double computation are below the
\* resolution of the fixed point and are left out.
RoundedHundredths(loanAmount, annualInterestRate, numberOfMonths) ==
  The({BigToInt(BigDivMod(BigAdd(BigMulSmall(parts.num, 2), parts.den),
                          BigMulSmall(parts.den, 2)).q) :
         parts \in
           {[num |-> BigShiftLeft(BigMulSmall(BigMul(BigMul(loanAmount.m,
                                                            BigSub(growth, FixedOne)),
                                                     pow), 100),
                                  IF loanAmount.e > 0 THEN loanAmount.e ELSE 0),
             den |-> BigShiftLeft(BigSub(pow, FixedOne),
                                  PowBits + (IF loanAmount.e < 0 THEN -loanAmount.e ELSE 0))] :
              <<growth, pow>> \in
                {<<g, PowFixed(g, numberOfMonths)>> : g \in {MonthlyGrowth(annualInterestRate)}}}})

calculateEMI(loanAmount, annualInterestRate, tenureYears) ==
  IF ~FLess(Zero, loanAmount) THEN Zero
  ELSE IF tenureYears <= 0 THEN Zero
  ELSE IF annualInterestRate < 0 THEN Zero
  ELSE IF annualInterestRate = 0 THEN FDiv(loanAmount, FFromInt(tenureYears * 12))
  ELSE The({FDiv(FFromInt(rounded), FFromInt(100)) :
              rounded \in {RoundedHundredths(loanAmount, annualInterestRate,
                                             tenureYears * 12)}})

calculateMaxLoanAmount(propertyPrice) == FMul(FFromInt(propertyPrice), MAX_LTV)
calculateMinDownPayment(propertyPrice) == FMul(FFromInt(propertyPrice), MIN_DOWN_PAYMENT)
calculateUpfrontCosts(propertyPrice) == FMul(FFromInt(propertyPrice), UPFRONT_COST_PERCENTAGE)
calculateTotalUpfront(propertyPrice, downPayment) ==
  FAdd(downPayment, calculateUpfrontCosts(propertyPrice))
calculateLTV(propertyPrice, downPayment) ==
  IF propertyPrice <= 0 THEN Zero
  ELSE FDiv(FSub(FFromInt(propertyPrice), downPayment), FFromInt(propertyPrice))

\* lines 172-204: the result for the loan capped at the maximum, or as it is
MortgageFrom(propertyPrice, downPayment, loanAmount, maxLoan, finalTenure, interestRate) ==
  IF FLess(maxLoan, loanAmount)
  THEN [propertyPrice |-> propertyPrice,
        downPayment |-> FSub(FFromInt(propertyPrice), maxLoan),
        loanAmount |-> maxLoan,
        ltv |-> MAX_LTV,
        upfrontCosts |-> calculateUpfrontCosts(propertyPrice),
        totalUpfront |-> calculateTotalUpfront(propertyPrice,
                                               FSub(FFromInt(propertyPrice), maxLoan)),
        emi |-> calculateEMI(maxLoan, interestRate, finalTenure),
        tenure |-> finalTenure,
        interestRate |-> interestRate]
  ELSE [propertyPrice |-> propertyPrice,
        downPayment |-> downPayment,
        loanAmount |-> loanAmount,
        ltv |-> calculateLTV(propertyPrice, downPayment),
        upfrontCosts |-> calculateUpfrontCosts(propertyPrice),
        totalUpfront |-> calculateTotalUpfront(propertyPrice, downPayment),
        emi |-> calculateEMI(loanAmount, interestRate, finalTenure),
        tenure |-> finalTenure,
        interestRate |-> interestRate]

\* lines 167-171 on the final down payment
MortgageWith(propertyPrice, downPayment, finalTenure, interestRate) ==
  MortgageFrom(propertyPrice, downPayment,
               FSub(FFromInt(propertyPrice), downPayment),
               calculateMaxLoanAmount(propertyPrice), finalTenure, interestRate)

\* lines 162-165: a down payment below the minimum is raised to it
RaisedTo(downPayment, minDownPayment) ==
  IF FLess(downPayment, minDownPayment) THEN minDownPayment ELSE downPayment

\* lines 161-204 on the resolved inputs
MortgageOf(propertyPrice, provided, finalTenure, interestRate) ==
  MortgageWith(propertyPrice,
               RaisedTo(provided, calculateMinDownPayment(propertyPrice)),
               finalTenure, interestRate)

\* inputs: [propertyPrice: number, downPayment, tenure, interestRate: optional]
calculateMortgage(inputs) ==
  MortgageOf(inputs.propertyPrice,
             \* providedDownPayment || calculateMinDownPayment(propertyPrice)
             IF inputs.downPayment.def /\ inputs.downPayment.v # 0
             THEN FFromInt(inputs.downPayment.v)
             ELSE calculateMinDownPayment(inputs.propertyPrice),
             Min(OrDefault(inputs.tenure, MAX_TENURE), MAX_TENURE),
             OrDefault(inputs.interestRate, INTEREST_RATE))

\* mutant: a stay of exactly 3 years is advised to rent
BuyVsRentOfInclusive(mortgage, monthlyRent, stayDuration) ==
  [recommendation |-> IF stayDuration <= RENT_BELOW THEN "rent"
                      ELSE IF stayDuration > BUY_ABOVE THEN "buy"
                      ELSE "neutral",
   monthlyEMI |-> mortgage.emi,
   monthlyRent |-> monthlyRent,
   upfrontCosts |-> mortgage.upfrontCosts,
   stayDuration |-> stayDuration]

\* lines 234-255 on the mortgage; the reasoning text is left out
BuyVsRentOf(mortgage, monthlyRent, stayDuration) ==
  [recommendation |-> IF stayDuration < RENT_BELOW THEN "rent"
                      ELSE IF stayDuration > BUY_ABOVE THEN "buy"
                      ELSE "neutral",
   monthlyEMI |-> mortgage.emi,
   monthlyRent |-> monthlyRent,
   upfrontCosts |-> mortgage.upfrontCosts,
   stayDuration |-> stayDuration]

\* inputs: [propertyPrice, monthlyRent: number, downPayment, tenure,
\* stayDuration, interestRate: optional]
analyzeBuyVsRent(inputs) ==
  BuyVsRentOf(calculateMortgage([propertyPrice |-> inputs.propertyPrice,
                                 downPayment |-> inputs.downPayment,
                                 tenure |-> Some(OrDefault(inputs.tenure, MAX_TENURE)),
                                 interestRate |->
                                   Some(OrDefault(inputs.interestRate, INTEREST_RATE))]),
              inputs.monthlyRent,
              OrDefault(inputs.stayDuration, DEFAULT_STAY))

\* ------------------------------------------------------------- dispatcher
\* calculateEMI with its default parameters; an undefined loan amount makes
\* every branch compute NaN
EMIOrNaN(loanAmount, annualInterestRate, tenureYears) ==
  IF ~loanAmount.def THEN NaN
  ELSE calculateEMI(FFromInt(loanAmount.v),
                    OrDefault(annualInterestRate, INTEREST_RATE),
                    OrDefault(tenureYears, MAX_TENURE))

KnownTools == {"calculate_mortgage", "analyze_buy_vs_rent", "calculate_refinance"}
NullArgs == [f \in {"null"} |-> 0]
ArgsIsNull(args) == DOMAIN args = {"null"}

\* x > 0 in JavaScript: false of NaN
IsPositive(x) == x # NaN /\ FLess(Zero, x)

\* mutant: a break-even equal to the remaining months still recommends the
\* refinance
RefinanceFromInclusive(currentEMI, newEMI, tenure, costs, monthlySavings, breakEvenMonths) ==
  [currentEMI |-> currentEMI,
   newEMI |-> newEMI,
   monthlySavings |-> monthlySavings,
   breakEvenMonths |-> IF breakEvenMonths = Infinity THEN JsNull ELSE breakEvenMonths,
   totalSavingsOverRemainingTenure |->
     IF monthlySavings = NaN \/ ~tenure.def \/ ~costs.def THEN NaN
     ELSE FSub(FMul(monthlySavings, FFromInt(tenure.v * 12)), FFromInt(costs.v)),
   recommendation |->
     IF IsPositive(monthlySavings) /\ tenure.def /\ costs.def
        /\ ~FLess(FFromInt(tenure.v * 12), breakEvenMonths)
     THEN "refinance" ELSE "keep_current"]

\* lines 74-81 on the savings and the break-even
RefinanceFrom(currentEMI, newEMI, tenure, costs, monthlySavings, breakEvenMonths) ==
  [currentEMI |-> currentEMI,
   newEMI |-> newEMI,
   monthlySavings |-> monthlySavings,
   breakEvenMonths |-> IF breakEvenMonths = Infinity THEN JsNull ELSE breakEvenMonths,
   totalSavingsOverRemainingTenure |->
     IF monthlySavings = NaN \/ ~tenure.def \/ ~costs.def THEN NaN
     ELSE FSub(FMul(monthlySavings, FFromInt(tenure.v * 12)), FFromInt(costs.v)),
   recommendation |->
     IF IsPositive(monthlySavings) /\ tenure.def /\ costs.def
        /\ FLess(breakEvenMonths, FFromInt(tenure.v * 12))
     THEN "refinance" ELSE "keep_current"]

\* mutant: without savings the break-even is reported as zero months
RefinanceWithZero(currentEMI, newEMI, tenure, costs, monthlySavings) ==
  RefinanceFrom(currentEMI, newEMI, tenure, costs, monthlySavings,
                IF IsPositive(monthlySavings)
                THEN IF costs.def THEN FDiv(FFromInt(costs.v), monthlySavings) ELSE NaN
                ELSE Zero)

\* line 71 on the savings
RefinanceWith(currentEMI, newEMI, tenure, costs, monthlySavings) ==
  RefinanceFrom(currentEMI, newEMI, tenure, costs, monthlySavings,
                IF IsPositive(monthlySavings)
                THEN IF costs.def THEN FDiv(FFromInt(costs.v), monthlySavings) ELSE NaN
                ELSE Infinity)

\* lines 70-81 on the two EMIs
RefinanceOf(currentEMI, newEMI, tenure, costs) ==
  RefinanceWith(currentEMI, newEMI, tenure, costs,
                IF currentEMI = NaN \/ newEMI = NaN THEN NaN
                ELSE FSub(currentEMI, newEMI))

calculateRefinance(args) ==
  RefinanceOf(EMIOrNaN(Field(args, "currentLoanAmount"),
                       Field(args, "currentInterestRate"),
                       Field(args, "currentTenure")),
              EMIOrNaN(Field(args, "currentLoanAmount"),
                       Field(args, "newInterestRate"),
                       Field(args, "currentTenure")),
              Field(args, "currentTenure"),
              Field(args, "switchingCosts"))

\* what a throw statement or a failing property read leaves in place of a
\* value
Thrown == [thrown |-> "TypeError"]
Threw(result) == "thrown" \in DOMAIN result

\* mutant: the switch without its default case
ToolSwitchNoDefault(toolName, args, scenario) ==
  IF ArgsIsNull(args) /\ toolName \in KnownTools THEN Thrown
  ELSE IF toolName = "calculate_mortgage" /\ ~Truthy(args, "propertyPrice")
  THEN [error |-> "propertyPrice is required and must be > 0"]
  ELSE calculateRefinance(args)

\* lines 36-86: the switch; the scenario parameter is unused, as in the
\* source.  A null payload makes the property reads of a known tool throw.
ToolSwitch(toolName, args, scenario) ==
  IF toolName \notin KnownTools THEN [error |-> "Unknown tool"]
  ELSE IF ArgsIsNull(args) THEN Thrown
  ELSE IF toolName = "calculate_mortgage"
  THEN IF ~Truthy(args, "propertyPrice") \/ args["propertyPrice"] <= 0
       THEN [error |-> "propertyPrice is required and must be > 0"]
       ELSE calculateMortgage([propertyPrice |-> args["propertyPrice"],
                               downPayment |-> Field(args, "downPayment"),
                               tenure |-> Field(args, "tenure"),
                               interestRate |-> Undefined])
  ELSE IF toolName = "analyze_buy_vs_rent"
  THEN IF ~Truthy(args, "propertyPrice") \/ ~Truthy(args, "monthlyRent")
          \/ ~Truthy(args, "stayDuration")
       THEN [error |-> "propertyPrice, monthlyRent, and stayDuration are required"]
       ELSE analyzeBuyVsRent([propertyPrice |-> args["propertyPrice"],
                              monthlyRent |-> args["monthlyRent"],
                              downPayment |-> Field(args, "downPayment"),
                              stayDuration |-> Some(args["stayDuration"]),
                              tenure |-> Field(args, "tenure"),
                              interestRate |-> Undefined])
  ELSE calculateRefinance(args)

\* mutant: the switch without the try/catch around it
executeToolCallUncaught(toolName, args, scenario) ==
  ToolSwitch(toolName, args, scenario)

\* lines 87-90: the function's own catch turns a throw into an error result
Caught(result) ==
  IF Threw(result) THEN [error |-> "Tool execution failed"] ELSE result

\* lines 35-90
executeToolCall(toolName, args, scenario) ==
  Caught(ToolSwitch(toolName, args, scenario))

\* the arguments each tool's schema marks as required
RequiredArguments(toolName) ==
  IF toolName = "calculate_mortgage" THEN {"propertyPrice"}
  ELSE IF toolName = "analyze_buy_vs_rent"
  THEN {"propertyPrice", "monthlyRent", "stayDuration"}
  ELSE IF toolName = "calculate_refinance"
  THEN {"currentLoanAmount", "currentInterestRate", "currentTenure",
        "newInterestRate", "switchingCosts"}
  ELSE {}

\* JSON.stringify of a tool result: NaN and Infinity are written as null
JSONStringify(result) ==
  IF "breakEvenMonths" \in DOMAIN result
  THEN [f \in DOMAIN result |->
          IF f = "recommendation" THEN result[f]
          ELSE IF result[f] = NaN \/ result[f] = Infinity THEN JsNull
          ELSE result[f]]
  ELSE result

\* JSON.parse of a raw argument payload: the value, or it throws
ParseThrows(raw) == ~raw.valid
JSONParse(raw) == raw.value

\* mutant: the source replaces the target
ObjectReplace(target, source) ==
  IF ArgsIsNull(source) THEN target ELSE source

\* Object.assign(target, source); a null source is skipped
ObjectAssign(target, source) ==
  IF ArgsIsNull(source) THEN target
  ELSE [f \in DOMAIN target \cup DOMAIN source |->
          IF f \in DOMAIN source THEN source[f] ELSE target[f]]

\* -------------------------------------------------------------- extractor
\* A user text is a sequence of words; a number word is one of Literals,
\* its magnitude in tenths.
Literals ==
  {[lit |-> "8k", tenths |-> 80, suffix |-> "k"],
   [lit |-> "1.5m", tenths |-> 15, suffix |-> "m"],
   [lit |-> "5", tenths |-> 50, suffix |-> ""]}
IsNumber(w) == \E l \in Literals : l.lit = w
LiteralOf(w) == CHOOSE l \in Literals : l.lit = w

parseNumberWithSuffix(w) ==
  LET l == LiteralOf(w)
      mul == IF l.suffix = "m" THEN 1000000 ELSE IF l.suffix = "k" THEN 1000 ELSE 1
  IN (l.tenths * mul) \div 10

PriceWords == {"aed", "dh", "dirham", "property", "apartment", "villa", "flat", "price", "cost"}
IncomeWords == {"/month", "monthly", "income", "salary"}
DownWords == {"down", "dp", "downpayment"}
RentWords == {"rent", "rental", "lease"}
YearWords == {"year", "years", "yrs", "y"}
StayWords == {"stay", "staying", "live", "living"}

\* the number at position i is followed by one of words, an optional "aed"
\* in between when aedFirst
Followed(text, i, words, aedFirst) ==
  \/ i + 1 <= Len(text) /\ text[i + 1] \in words
  \/ aedFirst /\ i + 2 <= Len(text) /\ text[i + 1] = "aed" /\ text[i + 2] \in words

\* positions a pattern matches at; String.match takes the leftmost
Matches(text, words, aedFirst) ==
  {i \in 1..Len(text) : IsNumber(text[i]) /\ Followed(text, i, words, aedFirst)}
PlainMatches(text, needStay) ==
  {i \in 1..Len(text) :
     /\ IsNumber(text[i]) /\ LiteralOf(text[i]).suffix = ""
     /\ i + 1 <= Len(text) /\ text[i + 1] \in YearWords
     /\ needStay => \E j \in (i + 2)..Len(text) : text[j] \in StayWords}
Leftmost(S) == CHOOSE i \in S : \A j \in S : i <= j

ExtractedField(name, S, text) ==
  IF S # {} /\ parseNumberWithSuffix(text[Leftmost(S)]) > 0
  THEN {<<name, parseNumberWithSuffix(text[Leftmost(S)])>>} ELSE {}

extractParameters(message) ==
  LET found == ExtractedField("propertyPrice", Matches(message, PriceWords, FALSE), message)
               \cup ExtractedField("income", Matches(message, IncomeWords, TRUE), message)
               \cup ExtractedField("downPayment", Matches(message, DownWords, TRUE), message)
               \cup ExtractedField("monthlyRent", Matches(message, RentWords, TRUE), message)
               \cup ExtractedField("tenure", PlainMatches(message, FALSE), message)
               \cup ExtractedField("stayDuration", PlainMatches(message, TRUE), message)
  IN [f \in {p[1] : p \in found} |-> (CHOOSE p \in found : p[1] = f)[2]]

\* --------------------------------------------------- context window builder
\* mutant: the slice start moves back one turn at most
WalkBackOnce(messages, start, idx) ==
  IF messages[start + 1].role = "tool" /\ idx >= 1 THEN idx ELSE start

RECURSIVE WalkBack(_, _, _)
\* the while loop: start is the 0-based index recent begins at
WalkBack(messages, start, idx) ==
  IF messages[start + 1].role = "tool" /\ idx >= 1
  THEN WalkBack(messages, idx, idx - 1)
  ELSE start

\* mutant: the most recent CONTEXT_WINDOW turns, without the walk back
buildContextNoWalk(messages) ==
  IF Len(messages) <= CONTEXT_WINDOW + 1 THEN messages
  ELSE <<messages[1]>>
       \o SubSeq(messages, Len(messages) - CONTEXT_WINDOW + 1, Len(messages))

\* mutant: a trimmed window is returned without the system turn
buildContextDropsSystem(messages) ==
  IF Len(messages) <= CONTEXT_WINDOW + 1 THEN messages
  ELSE SubSeq(messages,
              WalkBack(messages, Len(messages) - CONTEXT_WINDOW,
                       Len(messages) - CONTEXT_WINDOW - 1) + 1,
              Len(messages))

\* mutant: no early return; slice(-CONTEXT_WINDOW) of a short sequence is
\* the whole sequence
buildContextAlwaysTrim(messages) ==
  IF Len(messages) <= CONTEXT_WINDOW THEN <<messages[1]>> \o messages
  ELSE <<messages[1]>>
       \o SubSeq(messages,
                 WalkBack(messages, Len(messages) - CONTEXT_WINDOW,
                          Len(messages) - CONTEXT_WINDOW - 1) + 1,
                 Len(messages))

\* mutant: the turns the walk back pulls in are prepended to the slice
\* already taken, the turn at its start included
buildContextPrepends(messages) ==
  IF Len(messages) <= CONTEXT_WINDOW + 1 THEN messages
  ELSE LET cut == Len(messages) - CONTEXT_WINDOW
           start == WalkBack(messages, cut, cut - 1)
       IN <<messages[1]>>
          \o (IF start < cut THEN SubSeq(messages, start + 1, cut + 1) ELSE <<>>)
          \o SubSeq(messages, cut + 1, Len(messages))

\* mutant: the trimmed window is cut one turn short of the end
buildContextStale(messages) ==
  IF Len(messages) <= CONTEXT_WINDOW + 1 THEN messages
  ELSE LET start == WalkBack(messages, Len(messages) - CONTEXT_WINDOW,
                             Len(messages) - CONTEXT_WINDOW - 1)
       IN <<messages[1]>> \o SubSeq(messages, start + 1, Len(messages) - 1)

buildContextMessages(messages) ==
  IF Len(messages) <= CONTEXT_WINDOW + 1 THEN messages
  ELSE LET start == WalkBack(messages, Len(messages) - CONTEXT_WINDOW,
                             Len(messages) - CONTEXT_WINDOW - 1)
       IN <<messages[1]>> \o SubSeq(messages, start + 1, Len(messages))

\* ------------------------------------------------------------ the provider
\* what the caller may send as message; Missing is a body without the field
UserTexts == {<<"rent", "is", "8k", "aed">>, <<"5", "years", "stay">>}
Missing == <<"undefined">>

GoodArgs == [f \in {"propertyPrice", "downPayment"} |->
               IF f = "propertyPrice" THEN 1500000 ELSE 300000]
Raw(value) == [valid |-> TRUE, value |-> value]
Unparseable == [valid |-> FALSE, value |-> NullArgs]
\* what one invocation of a round-1 response may ask for
GoodCall == [name |-> "calculate_mortgage", arguments |-> Raw(GoodArgs)]
BadJsonCall == [name |-> "calculate_mortgage", arguments |-> Unparseable]
UnknownCall == [name |-> "no_such_tool", arguments |-> Raw(NullArgs)]
InvocationKinds == {GoodCall, BadJsonCall, UnknownCall}
\* payloads with and without the arguments the schemas require; rates are
\* counts of 1/RateScale
RefinanceArgs ==
  [f \in {"currentLoanAmount", "currentInterestRate", "currentTenure",
          "newInterestRate", "switchingCosts"} |->
     IF f = "currentLoanAmount" THEN 1000000
     ELSE IF f = "currentInterestRate" THEN 5000
     ELSE IF f = "currentTenure" THEN 20
     ELSE IF f = "newInterestRate" THEN 4000
     ELSE 10000]
Without(args, f) == [g \in DOMAIN args \ {f} |-> args[g]]
\* a refinance whose switching costs are 240 times the monthly savings of
\* 539.75
BreakEvenArgs ==
  [RefinanceArgs EXCEPT !["currentLoanAmount"] = 1000001, !["switchingCosts"] = 129540]
BuyVsRentArgs ==
  [f \in {"propertyPrice", "monthlyRent", "stayDuration"} |->
     IF f = "propertyPrice" THEN 1500000 ELSE IF f = "monthlyRent" THEN 8000 ELSE 4]
ToolKinds ==
  {GoodCall,
   [name |-> "calculate_mortgage", arguments |-> Raw(Without(GoodArgs, "propertyPrice"))],
   [name |-> "calculate_mortgage", arguments |-> Raw(NullArgs)],
   [name |-> "analyze_buy_vs_rent", arguments |-> Raw(BuyVsRentArgs)],
   [name |-> "analyze_buy_vs_rent", arguments |-> Raw(Without(BuyVsRentArgs, "stayDuration"))],
   [name |-> "calculate_refinance", arguments |-> Raw(RefinanceArgs)],
   [name |-> "calculate_refinance", arguments |-> Raw(Without(RefinanceArgs, "newInterestRate"))],
   [name |-> "calculate_refinance", arguments |-> Raw(Without(RefinanceArgs, "currentLoanAmount"))],
   [name |-> "calculate_refinance", arguments |-> Raw(Without(RefinanceArgs, "switchingCosts"))],
   [name |-> "calculate_refinance",
    arguments |-> Raw([RefinanceArgs EXCEPT !["newInterestRate"] = 5000])],
   [name |-> "calculate_refinance",
    arguments |-> Raw([RefinanceArgs EXCEPT !["newInterestRate"] = 6000])],
   [name |-> "calculate_refinance", arguments |-> Raw(BreakEvenArgs)],
   [name |-> "calculate_refinance",
    arguments |-> Raw([BreakEvenArgs EXCEPT !["switchingCosts"] = 129539])],
   UnknownCall}
\* The dispatcher is a function of the invocation and the scenario alone: its
\* results on the invocations the providers make are tabulated, each computed
\* once
ToolResults ==
  [call \in {[name |-> kind.name, args |-> JSONParse(kind.arguments), scenario |-> scenario] :
              kind \in {k \in InvocationKinds \cup ToolKinds : ~ParseThrows(k.arguments)},
              scenario \in Scenarios \cup {"other"}} |->
     executeToolCall(call.name, call.args, call.scenario)]
ValueAt(table, key, otherwise) ==
  IF key \in DOMAIN table THEN table[key] ELSE otherwise
ToolResultOf(toolName, args, scenario) ==
  ValueAt(ToolResults, [name |-> toolName, args |-> args, scenario |-> scenario],
          executeToolCall(toolName, args, scenario))

\* the invocation lists of request rid over kinds: ids are unique across
\* responses
CallLists(rid, kinds, maxCalls) ==
  UNION {{[i \in 1..n |-> [id |-> rid * 100 + i, name |-> f[i].name,
                           arguments |-> f[i].arguments]] :
           f \in [1..n -> kinds]} : n \in 1..maxCalls}

\* the content of a round-1 response without invocations, and with them
LongText == <<"a", "b", "c", "d", "e", "f", "g", "h", "i", "j", "k", "l">>
Letters == <<"a", "b", "c", "d", "e", "f", "g", "h", "i", "j", "k", "l", "m">>
TextOfLength(n) == [i \in 1..n |-> Letters[((i - 1) % Len(Letters)) + 1]]
Round1Texts == {TextOfLength(n) : n \in 0..MaxTextLen}
Round1CallTexts == {<<"n">>}

\* one line of the round-2 event stream: whether it starts with "data: ",
\* what follows the prefix, the content delta it carries, and which part of
\* the line the text is
DataLine(content) == [prefix |-> TRUE, kind |-> "json", content |-> content, part |-> "whole"]
DoneLine == [prefix |-> TRUE, kind |-> "done", content |-> <<>>, part |-> "whole"]
JunkLine == [prefix |-> TRUE, kind |-> "junk", content |-> <<>>, part |-> "whole"]
BlankLine == [prefix |-> FALSE, kind |-> "blank", content |-> <<>>, part |-> "whole"]
\* a line cut in two inside what follows its prefix: the text up to the cut
\* and the text after it
HeadOf(line) == [line EXCEPT !.part = "head"]
TailOf(line) == [line EXCEPT !.part = "tail"]
\* the network chunks a provider stream may deliver
OpenChunk == <<DataLine(<<"x">>), BlankLine, JunkLine>>
ClosingChunk == <<DataLine(<<"y">>), BlankLine, DoneLine, DataLine(<<"z">>)>>
NetChunks == {OpenChunk, ClosingChunk}
\* chunks whose boundary falls inside a line, and one with an empty delta
HeadChunk == <<DataLine(<<"x">>), BlankLine, HeadOf(DataLine(<<"y">>))>>
TailChunk == <<TailOf(DataLine(<<"y">>)), BlankLine, DoneLine, DataLine(<<"z">>)>>
DoneHeadChunk == <<DataLine(<<>>), DataLine(<<"x">>), HeadOf(DoneLine)>>
DoneTailChunk == <<TailOf(DoneLine), DataLine(<<"z">>)>>
SplitChunks ==
  {OpenChunk, ClosingChunk, HeadChunk, TailChunk, DoneHeadChunk, DoneTailChunk}

\* ------------------------------------------- the calculation route's client
\* what a client may post to the calculation route: amounts in AED, rates in
\* 1/RateScale, durations in years
CalcPrices == {1000000, 1234567, 1500000}
CalcDownPayments == {Undefined, Some(0), Some(100000), Some(300000), Some(500000)}
CalcTenures == {Undefined, Some(10), Some(30)}
CalcRates == {Undefined, Some(5000)}
CalcRents == {8000, 12000}
CalcStays == {Undefined, Some(0), Some(2), Some(3), Some(4), Some(5), Some(6)}
CalcLoans == {-1, 0, 1, 1200000}
CalcEMIRates == {Undefined, Some(-1000), Some(0), Some(1000)}
CalcEMITenures == {Undefined, Some(-1), Some(0), Some(25)}

MortgageRequests ==
  {[type |-> "mortgage",
    inputs |-> [propertyPrice |-> p, downPayment |-> d, tenure |-> t, interestRate |-> r]] :
     p \in CalcPrices, d \in CalcDownPayments, t \in CalcTenures, r \in CalcRates}
BuyVsRentRequests ==
  {[type |-> "buy-vs-rent",
    inputs |-> [propertyPrice |-> p, monthlyRent |-> m, downPayment |-> d, tenure |-> t,
                stayDuration |-> y, interestRate |-> Undefined]] :
     p \in CalcPrices \ {1000000}, m \in CalcRents,
     d \in {Undefined, Some(500000)}, t \in {Undefined, Some(10)}, y \in CalcStays}
EMIRequests ==
  {[type |-> "emi", inputs |-> [loanAmount |-> Some(l), interestRate |-> r, tenure |-> t]] :
     l \in CalcLoans, r \in CalcEMIRates, t \in CalcEMITenures}
\* a body without inputs
NoInputs == [missing |-> TRUE]
CalculationBodies ==
  {Raw(body) : body \in MortgageRequests \cup BuyVsRentRequests \cup EMIRequests}
  \cup {Raw([type |-> type, inputs |-> NoInputs]) : type \in {"mortgage", "emi", "other"}}
  \cup {Unparseable}
\* the bodies a client posts while a conversation is in progress
MixedBodies ==
  {Raw([type |-> "mortgage",
        inputs |-> [propertyPrice |-> 1500000, downPayment |-> Some(300000),
                    tenure |-> Undefined, interestRate |-> Undefined]]),
   Raw([type |-> "emi",
        inputs |-> [loanAmount |-> Some(1200000), interestRate |-> Undefined,
                    tenure |-> Some(25)]]),
   Raw([type |-> "mortgage", inputs |-> NoInputs]),
   Raw([type |-> "other", inputs |-> NoInputs])}

\* ---------------------------------------------------------------- workloads
\* What the callers and the provider do in one behaviour.  "turn": one
\* caller, every provider answer and every malformed request.  "race": two
\* concurrent callers on two keys.  "long": one caller whose session outgrows
\* the window.  "retag": one caller that states differing scenarios.
\* "burst": one response that names more invocations than the window holds.
\* "tools": one caller, whose text may name the keyword before the number,
\* and whose provider names every tool, with and without the arguments it
\* requires.  "cancel": one caller whose transport may
\* close while the turn is in progress.  "calculate": a client of the
\* calculation route alone.  "mixed": a client of the calculation route
\* beside a caller of the chat route.  "shared": two concurrent callers on
\* one key, whose responses name up to MaxCalls invocations.  "stream": one
\* caller whose round-2 stream arrives in chunks cut at any byte.
Workloads ==
  {[name |-> "turn", slots |-> {1}, keys |-> {"k1"},
    scenarios |-> {"buy-vs-rent"}, texts |-> {<<"rent", "is", "8k", "aed">>},
    malformed |-> TRUE, cancels |-> FALSE,
    faults |-> TRUE, kinds |-> InvocationKinds, maxCalls |-> MaxCalls,
    round1Texts |-> Round1Texts, netChunks |-> NetChunks, maxReads |-> MaxNetChunks,
    calculations |-> {},
    requests |-> TurnRequests],
   [name |-> "race", slots |-> {1, 2}, keys |-> {"k1", "k2"},
    scenarios |-> {"buy-vs-rent"}, texts |-> {<<"rent", "is", "8k", "aed">>},
    malformed |-> FALSE, cancels |-> FALSE, faults |-> FALSE, kinds |-> {GoodCall}, maxCalls |-> RaceCalls,
    round1Texts |-> {LongText}, netChunks |-> {ClosingChunk}, maxReads |-> MaxNetChunks,
    calculations |-> {},
    requests |-> RaceRequests],
   [name |-> "long", slots |-> {1}, keys |-> {"k1"},
    scenarios |-> {"buy-vs-rent"}, texts |-> {<<"5", "years", "stay">>},
    malformed |-> FALSE, cancels |-> FALSE, faults |-> TRUE, kinds |-> {GoodCall}, maxCalls |-> MaxCalls,
    round1Texts |-> {<<>>}, netChunks |-> {ClosingChunk}, maxReads |-> MaxNetChunks,
    calculations |-> {},
    requests |-> LongRequests],
   [name |-> "retag", slots |-> {1}, keys |-> {"k1"},
    scenarios |-> {"buy-vs-rent", "refinance-check", "other"},
    texts |-> UserTexts,
    malformed |-> FALSE, cancels |-> FALSE, faults |-> FALSE, kinds |-> {GoodCall}, maxCalls |-> RaceCalls,
    round1Texts |-> {<<>>}, netChunks |-> {ClosingChunk}, maxReads |-> MaxNetChunks,
    calculations |-> {},
    requests |-> RetagRequests],
   [name |-> "burst", slots |-> {1}, keys |-> {"k1"},
    scenarios |-> {"buy-vs-rent"}, texts |-> {<<"5", "years", "stay">>},
    malformed |-> FALSE, cancels |-> FALSE, faults |-> FALSE, kinds |-> {GoodCall}, maxCalls |-> BurstCalls,
    round1Texts |-> {<<>>}, netChunks |-> {ClosingChunk}, maxReads |-> MaxNetChunks,
    calculations |-> {},
    requests |-> BurstRequests],
   [name |-> "tools", slots |-> {1}, keys |-> {"k1"},
    scenarios |-> {"buy-vs-rent"},
    texts |-> {<<"5", "years", "stay">>, <<"property", "1.5m">>},
    malformed |-> FALSE, cancels |-> FALSE, faults |-> FALSE, kinds |-> ToolKinds, maxCalls |-> RaceCalls,
    round1Texts |-> {<<>>}, netChunks |-> {ClosingChunk}, maxReads |-> MaxNetChunks,
    calculations |-> {},
    requests |-> TurnRequests],
   [name |-> "cancel", slots |-> {1}, keys |-> {"k1"},
    scenarios |-> {"buy-vs-rent"}, texts |-> {<<"5", "years", "stay">>},
    malformed |-> FALSE, cancels |-> TRUE, faults |-> TRUE, kinds |-> {GoodCall},
    maxCalls |-> RaceCalls,
    round1Texts |-> {<<>>, LongText}, netChunks |-> {ClosingChunk}, maxReads |-> MaxNetChunks,
    calculations |-> {},
    requests |-> TurnRequests],
   [name |-> "calculate", slots |-> {}, keys |-> {"k1"},
    scenarios |-> {"buy-vs-rent"}, texts |-> {<<"5", "years", "stay">>},
    malformed |-> FALSE, cancels |-> FALSE, faults |-> FALSE, kinds |-> {GoodCall},
    maxCalls |-> RaceCalls,
    round1Texts |-> {<<>>}, netChunks |-> {ClosingChunk}, maxReads |-> MaxNetChunks,
    calculations |-> CalculationBodies,
    requests |-> TurnRequests],
   [name |-> "mixed", slots |-> {1}, keys |-> {"k1"},
    scenarios |-> {"buy-vs-rent"}, texts |-> {<<"5", "years", "stay">>},
    malformed |-> FALSE, cancels |-> FALSE, faults |-> FALSE, kinds |-> {GoodCall},
    maxCalls |-> RaceCalls,
    round1Texts |-> {<<>>}, netChunks |-> {ClosingChunk}, maxReads |-> MaxNetChunks,
    calculations |-> MixedBodies,
    requests |-> TurnRequests],
   [name |-> "shared", slots |-> {1, 2}, keys |-> {"k1"},
    scenarios |-> {"buy-vs-rent"}, texts |-> {<<"5", "years", "stay">>},
    malformed |-> FALSE, cancels |-> FALSE, faults |-> FALSE, kinds |-> {GoodCall},
    maxCalls |-> MaxCalls,
    round1Texts |-> {<<>>}, netChunks |-> {ClosingChunk}, maxReads |-> MaxNetChunks,
    calculations |-> {},
    requests |-> RaceRequests],
   [name |-> "stream", slots |-> {1}, keys |-> {"k1"},
    scenarios |-> {"buy-vs-rent"}, texts |-> {<<"5", "years", "stay">>},
    malformed |-> FALSE, cancels |-> FALSE, faults |-> FALSE, kinds |-> {GoodCall},
    maxCalls |-> RaceCalls,
    round1Texts |-> {<<>>}, netChunks |-> SplitChunks, maxReads |-> StreamReads,
    calculations |-> {},
    requests |-> TurnRequests]}

\* chunk.split('\n') as the loop sees it: the head of a cut line keeps the
\* prefix and what follows is neither [DONE] nor valid JSON; the tail of a
\* cut line does not start with the prefix
AsRead(piece) ==
  IF piece.part = "whole" THEN piece
  ELSE IF piece.part = "head" THEN [piece EXCEPT !.kind = "junk", !.content = <<>>]
  ELSE [piece EXCEPT !.prefix = FALSE, !.kind = "blank", !.content = <<>>]
SplitLines(chunk) == [i \in DOMAIN chunk |-> AsRead(chunk[i])]

RECURSIVE ParseLines(_, _, _)
\* one pass of the for loop over the lines of a chunk: the contents it
\* yields, and whether it returned at [DONE]
ParseLines(lines, i, yields) ==
  IF i > Len(lines) THEN [yields |-> yields, done |-> FALSE]
  ELSE IF ~lines[i].prefix THEN ParseLines(lines, i + 1, yields)
  ELSE IF lines[i].kind = "done" THEN [yields |-> yields, done |-> TRUE]
  ELSE IF lines[i].kind = "json" /\ lines[i].content # <<>>
  THEN ParseLines(lines, i + 1, Append(yields, lines[i].content))
  ELSE ParseLines(lines, i + 1, yields)

\* ------------------------------------------------------------------- state
VARIABLES
  load,                \* the workload of this behaviour
  apiKey,              \* process.env.MISTRAL_API_KEY is set
  conversationStates,  \* the session map: key -> [messages, scenario, extractedData]
  req,                 \* per request slot: the handler's position and locals
  writers,             \* history: key -> the request that appended each turn
  started,             \* number of requests that reached the store so far
  calc                 \* the calculation route: the request in flight and its response

vars == <<load, apiKey, conversationStates, req, writers, started, calc>>

EmptyObject == [f \in {} |-> 0]
Fragment(content, toolUsed) == [kind |-> "data", content |-> content, toolUsed |-> toolUsed]
DoneMarker == [kind |-> "done", content |-> <<>>, toolUsed |-> ""]
Round1Fallback == <<"I'm having trouble reaching the assistant.">>
Round2Fallback == <<"The assistant hit a snag while calculating.">>

\* one call of callMistralAPI: its stream flag and the tools it sends
ProviderCall(stream, tools) == [stream |-> stream, tools |-> tools]

IdleSlot ==
  [pc |-> "idle", status |-> 0, reply |-> "", sessionId |-> "", scenario |-> "", rid |-> 0,
   out |-> <<>>, stream |-> "none", ctx |-> <<>>, ctxLen |-> 0, calls |-> <<>>,
   callsAt |-> 0, content |-> <<>>, i |-> 0, fullResponse |-> <<>>,
   lastToolUsed |-> "", reads |-> 0, failed |-> "none", finals |-> 0,
   tools |-> <<>>, cancelled |-> FALSE, apiCalls |-> <<>>, received |-> <<>>]

Free(s) == req[s].pc \in {"idle", "done", "rejected"}
Sessions == DOMAIN conversationStates
\* mutant: the value is stored under every key
MapSetEvery(map, k, v) == [x \in DOMAIN map \cup {k} |-> v]

MapSet(map, k, v) == [x \in DOMAIN map \cup {k} |-> IF x = k THEN v ELSE map[x]]

CalcIdle == [pc |-> "idle", body |-> Unparseable, status |-> 0, success |-> FALSE,
             data |-> EmptyObject]

Init ==
  /\ load \in Workloads
  /\ apiKey \in BOOLEAN
  /\ conversationStates = EmptyObject
  /\ req = [s \in Slots |-> IdleSlot]
  /\ writers = EmptyObject
  /\ started = 0
  /\ calc = CalcIdle

\* ------------------------------------------------------------ POST, entry
\* lines 121-141: get or create the session, append the user turn
Ingest(sessionId, scenario, message) ==
  LET state == IF sessionId \in Sessions THEN conversationStates[sessionId]
               ELSE [messages |-> <<SystemMessage(getSystemPrompt(scenario))>>,
                     scenario |-> scenario,
                     extractedData |-> EmptyObject]
  IN [state EXCEPT !.messages = Append(@, UserMessage(message))]

\* the turns a request appended, recorded against the request
Wrote(sessionId, rid, n) ==
  LET before == IF sessionId \in DOMAIN writers THEN writers[sessionId] ELSE <<>>
  IN MapSet(writers, sessionId, before \o [j \in 1..n |-> rid])

Rejected(status, reply) ==
  [IdleSlot EXCEPT !.pc = "rejected", !.status = status, !.reply = reply]

\* request.json() throws: the outer catch answers 500
PostBadBody(s) ==
  /\ load.malformed
  /\ Free(s) /\ started < load.requests
  /\ req' = [req EXCEPT ![s] = Rejected(500, "Chat failed")]
  /\ started' = started + 1
  /\ UNCHANGED <<load, calc, apiKey, conversationStates, writers>>

PostMissingField(s, sessionId, scenario) ==
  /\ load.malformed
  /\ Free(s) /\ started < load.requests
  /\ sessionId = "" \/ scenario = ""
  /\ req' = [req EXCEPT ![s] = Rejected(400, "Missing sessionId or scenario")]
  /\ started' = started + 1
  /\ UNCHANGED <<load, calc, apiKey, conversationStates, writers>>

PostNoApiKey(s, sessionId, scenario) ==
  /\ Free(s) /\ started < load.requests
  /\ sessionId # "" /\ scenario # ""
  /\ ~apiKey
  /\ req' = [req EXCEPT ![s] = Rejected(500, "MISTRAL_API_KEY not configured")]
  /\ started' = started + 1
  /\ UNCHANGED <<load, calc, apiKey, conversationStates, writers>>

\* a body without message: the session is created and the user turn pushed
\* before extractParameters(undefined) throws into the outer catch
PostMissingMessage(s, sessionId, scenario) ==
  /\ load.malformed
  /\ Free(s) /\ started < load.requests
  /\ sessionId # "" /\ scenario # ""
  /\ apiKey
  /\ conversationStates' = MapSet(conversationStates, sessionId,
                                  Ingest(sessionId, scenario, Missing))
  /\ writers' = Wrote(sessionId, started + 1,
                      IF sessionId \in Sessions THEN 1 ELSE 2)
  /\ req' = [req EXCEPT ![s] = Rejected(500, "Chat failed")]
  /\ started' = started + 1
  /\ UNCHANGED <<load, calc, apiKey>>

\* lines 110-158: the request is accepted, the stream opened and the round-1
\* provider call sent
PostAccept(s, sessionId, scenario, message) ==
  /\ Free(s) /\ started < load.requests
  /\ sessionId # "" /\ scenario # ""
  /\ apiKey
  /\ LET ingested == Ingest(sessionId, scenario, message)
         state == [ingested EXCEPT !.extractedData =
                     ObjectAssign(@, extractParameters(message))]
     IN /\ conversationStates' = MapSet(conversationStates, sessionId, state)
        /\ req' = [req EXCEPT ![s] =
                     [IdleSlot EXCEPT !.pc = "round1", !.status = 200,
                                      !.sessionId = sessionId, !.scenario = scenario,
                                      !.rid = started + 1, !.stream = "open",
                                      !.tools = getAvailableTools(scenario),
                                      !.apiCalls =
                                        <<ProviderCall(FALSE, getAvailableTools(scenario))>>,
                                      !.ctx = buildContextMessages(state.messages),
                                      !.ctxLen = Len(state.messages)]]
  /\ writers' = Wrote(sessionId, started + 1,
                      IF sessionId \in Sessions THEN 1 ELSE 2)
  /\ started' = started + 1
  /\ UNCHANGED <<load, calc, apiKey>>

\* ---------------------------------------------------------- POST, round 1
\* mutant: the end marker is sent before the fallback fragment
Round1MarkerFirst == <<DoneMarker, Fragment(Round1Fallback, "")>>

\* lines 159-165
Round1FailureEvents == <<Fragment(Round1Fallback, ""), DoneMarker>>

\* mutant: the failed call is made once more
Round1FailsRetries(s) ==
  /\ req[s].pc = "round1"
  /\ ~req[s].cancelled
  /\ load.faults
  /\ Len(req[s].apiCalls) < 3
  /\ req' = [req EXCEPT ![s].apiCalls = Append(@, ProviderCall(FALSE, req[s].tools))]
  /\ UNCHANGED <<load, calc, apiKey, conversationStates, writers, started>>

Round1Fails(s) ==
  /\ req[s].pc = "round1"
  /\ ~req[s].cancelled
  /\ load.faults
  /\ req' = [req EXCEPT ![s].pc = "done", ![s].out = @ \o Round1FailureEvents,
                        ![s].stream = "closed", ![s].failed = "round1"]
  /\ UNCHANGED <<load, calc, apiKey, conversationStates, writers, started>>

\* mutant: a payload that does not parse leaves no tool turn
DispatchOneSilent(acc, toolCall, scenario) ==
  IF ParseThrows(toolCall.arguments) THEN acc
  ELSE LET args == JSONParse(toolCall.arguments)
           result == ToolResultOf(toolCall.name, args, scenario)
       IN [messages |-> Append(acc.messages, ToolMessage(toolCall, JSONStringify(result))),
           extractedData |-> ObjectAssign(acc.extractedData, args),
           lastToolUsed |-> toolCall.name]

\* mutant: a payload that does not parse empties the extracted parameters
DispatchOneDropsData(acc, toolCall, scenario) ==
  IF ParseThrows(toolCall.arguments)
  THEN [messages |-> Append(acc.messages,
                            ToolMessage(toolCall, [error |-> "Tool execution failed"])),
        extractedData |-> EmptyObject,
        lastToolUsed |-> acc.lastToolUsed]
  ELSE LET args == JSONParse(toolCall.arguments)
           result == ToolResultOf(toolCall.name, args, scenario)
       IN [messages |-> Append(acc.messages, ToolMessage(toolCall, JSONStringify(result))),
           extractedData |-> ObjectAssign(acc.extractedData, args),
           lastToolUsed |-> toolCall.name]

\* mutant: arguments the payload lacks are filled in from the extracted
\* parameters before the dispatch
DispatchOneFillsIn(acc, toolCall, scenario) ==
  IF ParseThrows(toolCall.arguments)
  THEN [acc EXCEPT !.messages =
          Append(@, ToolMessage(toolCall, [error |-> "Tool execution failed"]))]
  ELSE LET args == JSONParse(toolCall.arguments)
           result == ToolResultOf(toolCall.name,
                                     IF ArgsIsNull(args) THEN args
                                     ELSE ObjectAssign(acc.extractedData, args),
                                     scenario)
       IN [messages |-> Append(acc.messages, ToolMessage(toolCall, JSONStringify(result))),
           extractedData |-> ObjectAssign(acc.extractedData, args),
           lastToolUsed |-> toolCall.name]

\* lines 199-214 on the parsed arguments and the dispatcher's result
Dispatch(acc, toolCall, args, result) ==
  IF Threw(result)
  THEN [acc EXCEPT !.messages =
          Append(@, ToolMessage(toolCall, [error |-> "Tool execution failed"]))]
  ELSE [messages |-> Append(acc.messages, ToolMessage(toolCall, JSONStringify(result))),
        extractedData |-> ObjectAssign(acc.extractedData, args),
        lastToolUsed |-> toolCall.name]

\* lines 190-214: one pass of the for loop, on the state built so far; the
\* catch takes over when the parse or the dispatch throws
DispatchOne(acc, toolCall, scenario) ==
  IF ParseThrows(toolCall.arguments)
  THEN [acc EXCEPT !.messages =
          Append(@, ToolMessage(toolCall, [error |-> "Tool execution failed"]))]
  ELSE Dispatch(acc, toolCall, JSONParse(toolCall.arguments),
                ToolResultOf(toolCall.name, JSONParse(toolCall.arguments), scenario))

RECURSIVE DispatchAllReversed(_, _, _, _)
\* mutant: the invocations are dispatched last to first
DispatchAllReversed(acc, calls, i, scenario) ==
  IF i > Len(calls) THEN acc
  ELSE DispatchAllReversed(DispatchOne(acc, calls[Len(calls) + 1 - i], scenario),
                           calls, i + 1, scenario)

RECURSIVE DispatchAllButLast(_, _, _, _)
\* mutant: the loop ends before the last invocation
DispatchAllButLast(acc, calls, i, scenario) ==
  IF i >= Len(calls) THEN acc
  ELSE DispatchAllButLast(DispatchOne(acc, calls[i], scenario), calls, i + 1, scenario)

RECURSIVE DispatchAll(_, _, _, _)
\* lines 189-215: the for loop over the invocations
DispatchAll(acc, calls, i, scenario) ==
  IF i > Len(calls) THEN acc
  ELSE DispatchAll(DispatchOne(acc, calls[i], scenario), calls, i + 1, scenario)

\* lines 180-220: the response names invocations; the assistant turn and the
\* tool turns are appended and the round-2 call sent
Round1ToolCalls(s, content, calls) ==
  /\ req[s].pc = "round1"
  /\ LET k == req[s].sessionId
         state == conversationStates[k]
         pushed == Append(state.messages, AssistantCallsMessage(content, calls))
     IN \E acc \in {DispatchAll([messages |-> pushed,
                                 extractedData |-> state.extractedData,
                                 lastToolUsed |-> ""],
                                calls, 1, req[s].scenario)} :
        /\ conversationStates' =
             MapSet(conversationStates, k,
                    [state EXCEPT !.messages = acc.messages,
                                  !.extractedData = acc.extractedData])
        /\ writers' = Wrote(k, req[s].rid, Len(acc.messages) - Len(state.messages))
        /\ req' = [req EXCEPT ![s].pc = "round2", ![s].calls = calls,
                              ![s].callsAt = Len(pushed),
                              ![s].lastToolUsed = acc.lastToolUsed,
                              ![s].apiCalls = Append(@, ProviderCall(TRUE, req[s].tools)),
                              ![s].ctx = buildContextMessages(acc.messages),
                              ![s].ctxLen = Len(acc.messages)]
  /\ UNCHANGED <<load, calc, apiKey, started>>

\* mutant: the final assistant turn is not appended
AppendNothing(messages, fullResponse) == messages

\* mutant: the final assistant turn overwrites the last turn
AppendFinalOverLast(messages, fullResponse) ==
  [messages EXCEPT ![Len(messages)] = FinalAssistantMessage(fullResponse)]

\* lines 252-259: the final assistant turn, the end marker, close
AppendFinal(messages, fullResponse) ==
  Append(messages, FinalAssistantMessage(fullResponse))

Finish(s, slot) ==
  LET k == slot.sessionId
      state == conversationStates[k]
      after == AppendFinal(state.messages, slot.fullResponse)
  IN /\ conversationStates' = MapSet(conversationStates, k, [state EXCEPT !.messages = after])
     /\ writers' = Wrote(k, slot.rid, Len(after) - Len(state.messages))
     /\ req' = [req EXCEPT ![s] =
                  [slot EXCEPT !.pc = "done", !.out = @ \o <<DoneMarker>>,
                               !.stream = "closed",
                               !.finals = @ + (Len(after) - Len(state.messages))]]

\* mutant: a fragment of one character less than the step
TextChunkShort(content, i) ==
  SubSeq(content, i + 1, Min(i + CHUNK_SIZE - 1, Len(content)))

TextChunk(content, i) ==
  SubSeq(content, i + 1, Min(i + CHUNK_SIZE, Len(content)))

\* lines 238-250: no invocations; the first fragment is enqueued, or the turn
\* finishes at once when the content is empty
Round1Text(s, content) ==
  /\ req[s].pc = "round1"
  /\ ~req[s].cancelled
  /\ IF Len(content) = 0
     THEN Finish(s, [req[s] EXCEPT !.fullResponse = content])
     ELSE /\ req' = [req EXCEPT ![s].pc = "pacing", ![s].content = content,
                                ![s].fullResponse = content, ![s].i = 0,
                                ![s].out = Append(@, Fragment(TextChunk(content, 0), ""))]
          /\ UNCHANGED <<conversationStates, writers>>
  /\ UNCHANGED <<load, calc, apiKey, started>>

\* mutant: the loop index goes back and forth and the loop never ends
PaceStepSpins(s) ==
  /\ req[s].pc = "pacing"
  /\ ~req[s].cancelled
  /\ req' = [req EXCEPT ![s].i = IF @ = 0 THEN CHUNK_SIZE ELSE 0]
  /\ UNCHANGED <<load, calc, apiKey, started, conversationStates, writers>>

\* the pacing timer fires: the next fragment, or the end of the turn
PaceStep(s) ==
  /\ req[s].pc = "pacing"
  /\ ~req[s].cancelled
  /\ LET i == req[s].i + CHUNK_SIZE
     IN IF i < Len(req[s].content)
        THEN /\ req' = [req EXCEPT ![s].i = i,
                          ![s].out = Append(@, Fragment(TextChunk(req[s].content, i), ""))]
             /\ UNCHANGED <<conversationStates, writers>>
        ELSE Finish(s, req[s])
  /\ UNCHANGED <<load, calc, apiKey, started>>

\* ---------------------------------------------------------- POST, round 2
\* mutant: the round-2 failure sends the end marker only
Round2MarkerOnly == <<DoneMarker>>

\* lines 221-227
Round2FailureEvents == <<Fragment(Round2Fallback, ""), DoneMarker>>

Round2Fails(s) ==
  /\ req[s].pc = "round2"
  /\ ~req[s].cancelled
  /\ load.faults
  /\ req' = [req EXCEPT ![s].pc = "done", ![s].out = @ \o Round2FailureEvents,
                        ![s].stream = "closed", ![s].failed = "round2"]
  /\ UNCHANGED <<load, calc, apiKey, conversationStates, writers, started>>

\* the call returns the response body; the for await starts reading it
Round2Opens(s) ==
  /\ req[s].pc = "round2"
  /\ req' = [req EXCEPT ![s].pc = "streaming"]
  /\ UNCHANGED <<load, calc, apiKey, conversationStates, writers, started>>

RECURSIVE ForwardUnrecorded(_, _, _)
\* mutant: only the first content forwarded is kept as the full text
ForwardUnrecorded(slot, yields, i) ==
  IF i > Len(yields) THEN slot
  ELSE ForwardUnrecorded([slot EXCEPT !.fullResponse = IF @ = <<>> THEN yields[i] ELSE @,
                                      !.out = Append(@, Fragment(yields[i], slot.lastToolUsed))],
                         yields, i + 1)

RECURSIVE Forward(_, _, _)
\* lines 229-232, once per content the parser yields
Forward(slot, yields, i) ==
  IF i > Len(yields) THEN slot
  ELSE Forward([slot EXCEPT !.fullResponse = @ \o yields[i],
                            !.out = Append(@, Fragment(yields[i], slot.lastToolUsed))],
               yields, i + 1)

\* reader.read() delivers a network chunk
StreamChunk(s, chunk) ==
  /\ req[s].pc = "streaming"
  /\ ~req[s].cancelled
  /\ req[s].reads < load.maxReads
  /\ LET parsed == ParseLines(SplitLines(chunk), 1, <<>>)
         slot == Forward([req[s] EXCEPT !.reads = @ + 1, !.received = @ \o chunk],
                         parsed.yields, 1)
     IN IF parsed.done
        THEN Finish(s, slot)
        ELSE /\ req' = [req EXCEPT ![s] = slot]
             /\ UNCHANGED <<conversationStates, writers>>
  /\ UNCHANGED <<load, calc, apiKey, started>>

\* reader.read() reports the end of the body
StreamEnds(s) ==
  /\ req[s].pc = "streaming"
  /\ ~req[s].cancelled
  /\ Finish(s, req[s])
  /\ UNCHANGED <<load, calc, apiKey, started>>

\* lines 260-263: reader.read() rejects; the outer catch errors the stream
StreamErrors(s) ==
  /\ req[s].pc = "streaming"
  /\ load.faults
  /\ req' = [req EXCEPT ![s].pc = "done",
                        ![s].stream = IF req[s].cancelled THEN @ ELSE "errored",
                        ![s].failed = "stream"]
  /\ UNCHANGED <<load, calc, apiKey, conversationStates, writers, started>>

\* ---------------------------------------------------- POST, transport closed
\* The caller goes away: the runtime cancels the response stream.  start()
\* registers no cancel handler and reads no abort signal, so the handler runs
\* on until its next controller.enqueue, which throws on a cancelled stream.
TransportCloses(s) ==
  /\ load.cancels
  /\ req[s].pc \in {"round1", "pacing", "round2", "streaming"}
  /\ ~req[s].cancelled
  /\ req' = [req EXCEPT ![s].cancelled = TRUE, ![s].stream = "cancelled"]
  /\ UNCHANGED <<load, calc, apiKey, conversationStates, writers, started>>

\* lines 260-263 after a cancel: the enqueue of a fallback, of a fragment or
\* of a forwarded content throws into the outer catch
EnqueueThrows(s, fails, chunk) ==
  /\ req[s].cancelled
  /\ \/ req[s].pc \in {"round1", "round2"} /\ fails /\ load.faults
     \/ req[s].pc = "round1" /\ ~fails /\ \E c \in load.round1Texts : Len(c) > 0
     \/ req[s].pc = "pacing" /\ ~fails /\ req[s].i + CHUNK_SIZE < Len(req[s].content)
     \/ req[s].pc = "streaming" /\ ~fails /\ req[s].reads < load.maxReads
        /\ ParseLines(SplitLines(chunk), 1, <<>>).yields # <<>>
  /\ LET yields == IF req[s].pc = "streaming" /\ ~fails
                   THEN ParseLines(SplitLines(chunk), 1, <<>>).yields ELSE <<>>
     IN req' = [req EXCEPT ![s].pc = "done", ![s].failed = "cancelled",
                           ![s].fullResponse =
                             IF yields # <<>> THEN @ \o yields[1] ELSE @]
  /\ UNCHANGED <<load, calc, apiKey, conversationStates, writers, started>>

\* lines 252-258 after a cancel: nothing is left to send, the final assistant
\* turn is pushed and the enqueue of the end marker throws
FinalThenThrows(s, content) ==
  /\ req[s].cancelled
  /\ \/ req[s].pc = "round1" /\ Len(content) = 0
     \/ req[s].pc = "pacing" /\ content = req[s].fullResponse
        /\ req[s].i + CHUNK_SIZE >= Len(req[s].content)
     \/ req[s].pc = "streaming" /\ content = req[s].fullResponse
  /\ LET k == req[s].sessionId
         state == conversationStates[k]
         after == AppendFinal(state.messages, content)
     IN /\ conversationStates' =
             MapSet(conversationStates, k, [state EXCEPT !.messages = after])
        /\ writers' = Wrote(k, req[s].rid, Len(after) - Len(state.messages))
        /\ req' = [req EXCEPT ![s].pc = "done", ![s].fullResponse = content,
                              ![s].failed = "cancelled",
                              ![s].finals = @ + (Len(after) - Len(state.messages))]
  /\ UNCHANGED <<load, calc, apiKey, started>>

\* ------------------------------------------------- POST, calculation route
CalculationTypes == {"mortgage", "buy-vs-rent", "emi"}

\* lines 35-51: the cases of the switch; without inputs the destructuring
\* throws
CalculationOf(type, inputs) ==
  IF "missing" \in DOMAIN inputs THEN Thrown
  ELSE IF type = "mortgage" THEN calculateMortgage(inputs)
  ELSE IF type = "buy-vs-rent" THEN analyzeBuyVsRent(inputs)
  ELSE [emi |-> EMIOrNaN(inputs.loanAmount, inputs.interestRate, inputs.tenure)]

\* lines 59-64: the catch
CalculationFailed ==
  [status |-> 500, success |-> FALSE, data |-> [error |-> "Calculation failed"]]

\* lines 38, 44, 50: the result is the response's data
CalculationSucceeded(data) ==
  IF Threw(data) THEN CalculationFailed
  ELSE [status |-> 200, success |-> TRUE, data |-> data]

\* lines 30-65
CalculationResponse(body) ==
  IF ParseThrows(body) THEN CalculationFailed
  ELSE IF JSONParse(body).type \notin CalculationTypes
  THEN [status |-> 400, success |-> FALSE, data |-> [error |-> "Invalid calculation type"]]
  ELSE CalculationSucceeded(CalculationOf(JSONParse(body).type, JSONParse(body).inputs))

\* mutant: the route clears the session store
PostCalculateResets(body) ==
  /\ calc.pc = "idle"
  /\ \E response \in {CalculationResponse(body)} :
       calc' = [pc |-> "answered", body |-> body, status |-> response.status,
                success |-> response.success, data |-> response.data]
  /\ conversationStates' = EmptyObject
  /\ UNCHANGED <<load, apiKey, req, writers, started>>

\* a request to the calculation route is answered
PostCalculate(body) ==
  /\ calc.pc = "idle"
  /\ \E response \in {CalculationResponse(body)} :
       calc' = [pc |-> "answered", body |-> body, status |-> response.status,
                success |-> response.success, data |-> response.data]
  /\ UNCHANGED <<load, apiKey, conversationStates, req, writers, started>>

\* the client has read the response
CalculationRead ==
  /\ calc.pc = "answered"
  /\ calc' = CalcIdle
  /\ UNCHANGED <<load, apiKey, conversationStates, req, writers, started>>

\* ------------------------------------------------------------ specification
StatedKeys == load.keys \cup {""}
StatedScenarios == load.scenarios \cup {""}

Next ==
  \/ \E s \in load.slots : PostBadBody(s)
  \/ \E s \in load.slots, k \in StatedKeys, sc \in StatedScenarios : PostMissingField(s, k, sc)
  \/ \E s \in load.slots, k \in StatedKeys, sc \in StatedScenarios : PostNoApiKey(s, k, sc)
  \/ \E s \in load.slots, k \in StatedKeys, sc \in StatedScenarios :
       PostMissingMessage(s, k, sc)
  \/ \E s \in load.slots, k \in StatedKeys, sc \in StatedScenarios, m \in load.texts :
       PostAccept(s, k, sc, m)
  \/ \E s \in load.slots : Round1Fails(s)
  \/ \E s \in load.slots :
       \E content \in Round1CallTexts,
          calls \in CallLists(req[s].rid, load.kinds, load.maxCalls) :
         Round1ToolCalls(s, content, calls)
  \/ \E s \in load.slots, content \in load.round1Texts : Round1Text(s, content)
  \/ \E s \in load.slots : PaceStep(s)
  \/ \E s \in load.slots : Round2Fails(s)
  \/ \E s \in load.slots : Round2Opens(s)
  \/ \E s \in load.slots, chunk \in load.netChunks : StreamChunk(s, chunk)
  \/ \E s \in load.slots : StreamEnds(s)
  \/ \E s \in load.slots : StreamErrors(s)
  \/ \E s \in load.slots : TransportCloses(s)
  \/ \E s \in load.slots, fails \in BOOLEAN, chunk \in load.netChunks :
       EnqueueThrows(s, fails, chunk)
  \/ \E s \in load.slots :
       \E content \in load.round1Texts \cup {req[s].fullResponse} :
         FinalThenThrows(s, content)
  \/ \E body \in load.calculations : PostCalculate(body)
  \/ CalculationRead

Spec == Init /\ [][Next]_vars

\* The continuation of a turn in progress: the callback that runs when the
\* provider call it awaits returns or fails, when the pacing timer fires, or
\* when a read of the round-2 body resolves or rejects.
Continue(s) ==
  \/ Round1Fails(s)
  \/ \E content \in Round1CallTexts,
         calls \in CallLists(req[s].rid, load.kinds, load.maxCalls) :
        Round1ToolCalls(s, content, calls)
  \/ \E content \in load.round1Texts : Round1Text(s, content)
  \/ PaceStep(s)
  \/ Round2Fails(s)
  \/ Round2Opens(s)
  \/ \E chunk \in load.netChunks : StreamChunk(s, chunk)
  \/ StreamEnds(s)
  \/ StreamErrors(s)
  \/ \E fails \in BOOLEAN, chunk \in load.netChunks : EnqueueThrows(s, fails, chunk)
  \/ \E content \in load.round1Texts \cup {req[s].fullResponse} : FinalThenThrows(s, content)

\* Every provider call returns or fails, every timer fires and every read of a
\* provider body resolves: the event loop runs the continuation of each turn.
\* A provider body is finite: it delivers at most load.maxReads chunks.
LiveSpec == Spec /\ \A s \in Slots : WF_vars(Continue(s))

\* ------------------------------------------------------------ vocabulary
Messages(k) == conversationStates[k].messages
InFlight(s) == req[s].pc \in {"round1", "pacing", "round2", "streaming"}
HasMarker(s) == \E i \in DOMAIN req[s].out : req[s].out[i].kind = "done"
\* the positions of session k that request rid appended
WrittenBy(k, rid) == {i \in DOMAIN writers[k] : writers[k][i] = rid}
IsNarrative(m) == m.role = "assistant" /\ m.tool_calls = <<>>
Trimmed(s) == req[s].ctxLen > CONTEXT_WINDOW + 1

RECURSIVE Narrative(_, _)
\* the text fragments of an event stream up to event i, concatenated
Narrative(out, i) ==
  IF i = 0 THEN <<>>
  ELSE IF out[i].kind = "data" THEN Narrative(out, i - 1) \o out[i].content
  ELSE Narrative(out, i - 1)

\* ------------------------------------------------------------------ claims

\* C1: at most one turn is in progress per session key at a time, and the
\* turns two requests append to one session are never interleaved: between
\* two turns of one request there is no turn of another.
OneTurnPerSession ==
  /\ \A s1, s2 \in Slots :
       s1 # s2 /\ InFlight(s1) /\ InFlight(s2) => req[s1].sessionId # req[s2].sessionId
  /\ \A k \in Sessions : \A i, j, l \in DOMAIN writers[k] :
       i < j /\ j < l /\ writers[k][i] = writers[k][l] => writers[k][j] = writers[k][i]

\* C2: once a round-1 response named n >= 1 invocations, the session holds,
\* from this request, exactly one assistant turn with the whole invocation
\* list and right after it exactly n tool turns, the i-th with the id and
\* the tool name of the i-th invocation.
ToolTurnsFollowInvocations ==
  \A s \in Slots :
    req[s].calls # <<>> =>
      LET k == req[s].sessionId
          m == Messages(k)
          at == req[s].callsAt
          n == Len(req[s].calls)
          mine == WrittenBy(k, req[s].rid)
      IN /\ at + n <= Len(m)
         /\ m[at].role = "assistant" /\ m[at].tool_calls = req[s].calls
         /\ \A i \in 1..n :
              /\ m[at + i].role = "tool"
              /\ m[at + i].tool_call_id = req[s].calls[i].id
              /\ m[at + i].name = req[s].calls[i].name
         /\ {j \in mine : m[j].role = "tool"} = (at + 1)..(at + n)
         /\ {j \in mine : m[j].tool_calls # <<>>} = {at}

ToolTurnsFollowInvocationsWitness ==
  \E s \in Slots :
    /\ req[s].pc = "done" /\ Len(req[s].calls) >= 2
    /\ req[s].calls[1].name # req[s].calls[2].name

\* C3: in every state of the store, every invocation listed in an assistant
\* turn has a tool turn with its correlation id later in that session.
NoDanglingInvocation ==
  \A k \in Sessions : \A i \in DOMAIN Messages(k) :
    \A c \in DOMAIN Messages(k)[i].tool_calls :
      \E j \in DOMAIN Messages(k) :
        /\ j > i
        /\ Messages(k)[j].role = "tool"
        /\ Messages(k)[j].tool_call_id = Messages(k)[i].tool_calls[c].id

\* a turn with an unparseable payload whose round-2 call failed
NoDanglingInvocationWitness ==
  \E s \in Slots :
    /\ req[s].failed = "round2"
    /\ \E c \in DOMAIN req[s].calls : ~req[s].calls[c].arguments.valid

ProviderFailureFallsBack ==
  \A s \in Slots :
    req[s].failed \in {"round1", "round2"} =>
      /\ Len(req[s].out) = 2
      /\ req[s].out[1].kind = "data"
      /\ req[s].out[1].content =
           (IF req[s].failed = "round1" THEN Round1Fallback ELSE Round2Fallback)
      /\ req[s].out[2].kind = "done"
      /\ req[s].stream = "closed"
      /\ req[s].sessionId \in Sessions
      /\ \A i \in WrittenBy(req[s].sessionId, req[s].rid) :
           ~IsNarrative(Messages(req[s].sessionId)[i])

ProviderFailureFallsBackWitness ==
  \E s \in Slots : req[s].failed = "round2" /\ req[s].calls # <<>>

\* C6: a stream that has ended after a round-2 fragment was forwarded ends
\* with the end marker.
EndMarkerAfterStreamFailure ==
  \A s \in Slots :
    /\ req[s].stream \in {"closed", "errored"}
    /\ req[s].calls # <<>>
    /\ req[s].out # <<>>
    => req[s].out[Len(req[s].out)].kind = "done"

\* C7: the first turn of every session is the system turn of the scenario it
\* was created with, no later turn is a system turn, and every context
\* window starts with that turn.
SystemTurnFirst ==
  /\ \A k \in Sessions :
       /\ Messages(k)[1].role = "system"
       /\ Messages(k)[1].content = getSystemPrompt(conversationStates[k].scenario)
       /\ \A i \in DOMAIN Messages(k) : i > 1 => Messages(k)[i].role # "system"
  /\ \A s \in Slots :
       req[s].ctx # <<>> =>
         /\ req[s].ctx[1].role = "system"
         /\ req[s].ctx[1].content = Messages(req[s].sessionId)[1].content

\* the first two requests of a new key, both awaiting the provider
SystemTurnFirstWitness ==
  \E s1, s2 \in Slots :
    /\ s1 # s2 /\ req[s1].pc = "round1" /\ req[s2].pc = "round1"
    /\ req[s1].sessionId = req[s2].sessionId
    /\ Len(Messages(req[s1].sessionId)) = 3

\* C8, as stated: in every window every tool turn directly follows the
\* assistant turn that lists its invocation.
ToolTurnDirectlyAfterAssistant ==
  \A s \in Slots : \A i \in DOMAIN req[s].ctx :
    req[s].ctx[i].role = "tool" =>
      /\ i > 1
      /\ \E c \in DOMAIN req[s].ctx[i - 1].tool_calls :
           req[s].ctx[i - 1].tool_calls[c].id = req[s].ctx[i].tool_call_id

\* C8, amended: in every window every tool turn is preceded by the assistant
\* turn that lists its invocation, with nothing between the two but the tool
\* turns of the earlier invocations of that same assistant turn.
ToolTurnAfterItsAssistant ==
  \A s \in Slots : \A i \in DOMAIN req[s].ctx :
    req[s].ctx[i].role = "tool" =>
      \E j \in 1..(i - 1) :
        /\ req[s].ctx[j].role = "assistant"
        /\ i - j \in DOMAIN req[s].ctx[j].tool_calls
        /\ \A d \in 1..(i - j) :
             /\ req[s].ctx[j + d].role = "tool"
             /\ req[s].ctx[j + d].tool_call_id = req[s].ctx[j].tool_calls[d].id

\* a trimmed window with the second tool turn of one assistant turn
ToolTurnAfterItsAssistantWitness ==
  \E s \in Slots :
    /\ Trimmed(s)
    /\ \E i \in DOMAIN req[s].ctx :
         i > 2 /\ req[s].ctx[i].role = "tool" /\ req[s].ctx[i - 1].role = "tool"

\* C9: in a window built from more than CONTEXT_WINDOW + 1 turns, the turn
\* after the system turn is not a tool turn.
TrailingSliceStartsOffTool ==
  \A s \in Slots : Trimmed(s) => req[s].ctx[2].role # "tool"

\* the most recent CONTEXT_WINDOW turns started with the second tool turn of
\* a group
TrailingSliceWitness ==
  \E s \in Slots :
    /\ Trimmed(s)
    /\ Messages(req[s].sessionId)[req[s].ctxLen - CONTEXT_WINDOW + 1].role = "tool"
    /\ Messages(req[s].sessionId)[req[s].ctxLen - CONTEXT_WINDOW].role = "tool"

\* C10: a window built from at most CONTEXT_WINDOW + 1 turns is the whole
\* turn sequence, in order.
ShortSessionWindowIsWhole ==
  \A s \in Slots :
    req[s].ctx # <<>> /\ ~Trimmed(s) =>
      req[s].ctx = SubSeq(Messages(req[s].sessionId), 1, req[s].ctxLen)

ShortSessionWindowWitness ==
  \E s \in Slots : req[s].ctxLen = CONTEXT_WINDOW + 1

\* C11: a trimmed window is the first turn of the session followed by a
\* contiguous suffix of the session as it was when the window was built, the
\* suffix starting after the first turn and holding at least CONTEXT_WINDOW
\* turns; so no turn appears twice.
WindowIsSystemPlusSuffix ==
  \A s \in Slots :
    Trimmed(s) =>
      LET m == SubSeq(Messages(req[s].sessionId), 1, req[s].ctxLen)
      IN \E start \in 2..(req[s].ctxLen - CONTEXT_WINDOW + 1) :
           req[s].ctx = <<m[1]>> \o SubSeq(m, start, req[s].ctxLen)

\* the walk back went as far as it can: the suffix starts at the assistant
\* turn right after the first user turn
WindowIsSystemPlusSuffixWitness ==
  \E s \in Slots :
    /\ Trimmed(s)
    /\ req[s].ctx[2] = Messages(req[s].sessionId)[3]
    /\ Len(req[s].ctx) > CONTEXT_WINDOW + 2

\* C12: the tool list offered to the provider and the scenario handed to the
\* dispatcher are those of the tag stored with the session, whatever the
\* request states.
StoredScenarioIsAuthoritative ==
  \A s \in Slots :
    req[s].status = 200 =>
      /\ req[s].tools = getAvailableTools(conversationStates[req[s].sessionId].scenario)
      /\ req[s].scenario = conversationStates[req[s].sessionId].scenario

\* C13: the scenario tag of every session in the store is one of the closed
\* set of scenarios.
StoredScenarioInClosedSet ==
  \A k \in Sessions : conversationStates[k].scenario \in Scenarios

\* the result held by the tool turn of invocation i of the request in slot s
ResultOf(s, i) == Messages(req[s].sessionId)[req[s].callsAt + i].content[2]
IsError(result) == "error" \in DOMAIN result
Dispatched(s) == req[s].calls # <<>>

\* C14: an invocation whose payload lacks an argument the tool's schema
\* requires gets a structured error result, for each of the three tools.
MissingRequiredIsRefused ==
  \A s \in Slots : \A i \in DOMAIN req[s].calls :
    LET c == req[s].calls[i]
    IN /\ c.arguments.valid
       /\ \E f \in RequiredArguments(c.name) : ~Has(c.arguments.value, f)
       => IsError(ResultOf(s, i))

\* C15: an invocation of a tool that is not known gets the unknown-tool error
\* result, the invocations after it get their tool turns, and the round-2
\* window is built from the session with all of them.
UnknownToolIsRefused ==
  \A s \in Slots : \A i \in DOMAIN req[s].calls :
    req[s].calls[i].name \notin KnownTools /\ req[s].calls[i].arguments.valid =>
      /\ IsError(ResultOf(s, i))
      /\ ResultOf(s, i).error = "Unknown tool"
      /\ req[s].callsAt + Len(req[s].calls) <= Len(Messages(req[s].sessionId))
      /\ req[s].pc \in {"round2", "streaming", "done"}
      /\ req[s].ctx[Len(req[s].ctx)].role = "tool"
      /\ req[s].ctx[Len(req[s].ctx)].tool_call_id = req[s].calls[Len(req[s].calls)].id

\* an unknown tool followed by another invocation
UnknownToolIsRefusedWitness ==
  \E s \in Slots :
    /\ Len(req[s].calls) >= 2
    /\ req[s].calls[1].name \notin KnownTools /\ req[s].calls[1].arguments.valid
    /\ req[s].pc = "round2"

\* the invocations of slot s whose payload parses
Parsed(s) == {i \in DOMAIN req[s].calls : req[s].calls[i].arguments.valid}

\* C16: the dispatcher returns a result value for every tool name and every
\* parsed payload: no tool turn holds a thrown exception, and the tool of the
\* last parsed payload is recorded as used, which the orchestrator does only
\* after the dispatcher returned.
DispatcherAlwaysReturns ==
  \A s \in Slots :
    Dispatched(s) =>
      /\ \A i \in DOMAIN req[s].calls : ~Threw(ResultOf(s, i))
      /\ req[s].lastToolUsed =
           IF Parsed(s) = {} THEN ""
           ELSE req[s].calls[CHOOSE i \in Parsed(s) : \A j \in Parsed(s) : j <= i].name

\* a known tool was dispatched with a null payload
DispatcherAlwaysReturnsWitness ==
  \E s \in Slots :
    /\ Dispatched(s)
    /\ LET c == req[s].calls[Len(req[s].calls)]
       IN c.name \in KnownTools /\ c.arguments.valid /\ ArgsIsNull(c.arguments.value)

RECURSIVE MergeParsed(_, _, _)
\* data after the parsed payloads of calls i.. were merged into it
MergeParsed(data, calls, i) ==
  IF i > Len(calls) THEN data
  ELSE MergeParsed(IF calls[i].arguments.valid
                   THEN ObjectAssign(data, calls[i].arguments.value) ELSE data,
                   calls, i + 1)

ParseFailureKeepsTurn ==
  \A s \in Slots : \A i \in DOMAIN req[s].calls :
    ~req[s].calls[i].arguments.valid =>
      /\ Messages(req[s].sessionId)[req[s].callsAt + i] =
           ToolMessage(req[s].calls[i], [error |-> "Tool execution failed"])
      /\ req[s].callsAt + Len(req[s].calls) <= Len(Messages(req[s].sessionId))
      /\ \A j \in (i + 1)..Len(req[s].calls) :
           Messages(req[s].sessionId)[req[s].callsAt + j].tool_call_id = req[s].calls[j].id
      /\ req[s].pc \in {"round2", "streaming", "done"}
      /\ req[s].ctx[Len(req[s].ctx)].tool_call_id = req[s].calls[Len(req[s].calls)].id

ParseFailureKeepsData ==
  \A s \in Slots :
    req[s].pc = "round1" /\ req'[s].pc = "round2" =>
      conversationStates'[req[s].sessionId].extractedData =
        MergeParsed(conversationStates[req[s].sessionId].extractedData, req'[s].calls, 1)

\* C17: an invocation whose payload does not parse gets an error tool turn
\* with its id, changes nothing in the extracted parameters, and the later
\* invocations of the response are dispatched and the round-2 window built.
ParseFailureIsLocal == []ParseFailureKeepsTurn /\ [][ParseFailureKeepsData]_vars

\* an unparseable payload followed by one that parses, in a session that
\* holds extracted parameters
ParseFailureIsLocalWitness ==
  \E s \in Slots :
    /\ Len(req[s].calls) >= 2
    /\ ~req[s].calls[1].arguments.valid /\ req[s].calls[2].arguments.valid
    /\ req[s].pc = "round2"
    /\ DOMAIN conversationStates[req[s].sessionId].extractedData # {}

\* the text events of an event stream
DataEvents(out) == {i \in DOMAIN out : out[i].kind = "data"}

\* C18: a round-1 content of length L without invocations is emitted as
\* ceil(L/10) fragments, the i-th holding characters 10(i-1)+1 .. min(10i, L)
\* of the content, followed by the end marker; while the turn is paced the
\* fragments sent so far are the first ones; the turn appends no tool turn.
FragmentsOfFixedSize ==
  \A s \in Slots :
    req[s].status = 200 /\ ~Dispatched(s) /\ req[s].pc \in {"pacing", "done"}
    /\ req[s].failed = "none" =>
      LET content == req[s].fullResponse
          L == Len(content)
          out == req[s].out
          n == Cardinality(DataEvents(out))
          m == Messages(req[s].sessionId)
      IN /\ DataEvents(out) = 1..n
         /\ \A i \in 1..n :
              /\ out[i].content =
                   SubSeq(content, 10 * (i - 1) + 1, IF 10 * i < L THEN 10 * i ELSE L)
              /\ Len(out[i].content) \in 1..10
              /\ i < n => Len(out[i].content) = 10
         /\ req[s].pc = "done" =>
              /\ n = (L + 9) \div 10
              /\ out = [i \in 1..n |-> out[i]] \o <<DoneMarker>>
              /\ Narrative(out, Len(out)) = content
         /\ req[s].pc = "pacing" => n >= 1 /\ 10 * (n - 1) < L /\ Len(out) = n
         /\ \A j \in WrittenBy(req[s].sessionId, req[s].rid) : m[j].role # "tool"

\* a content of more than two full fragments and a shorter last one
FragmentsOfFixedSizeWitness ==
  \E s \in Slots :
    /\ req[s].status = 200 /\ ~Dispatched(s) /\ req[s].pc = "done"
    /\ Len(req[s].fullResponse) > 20 /\ Len(req[s].fullResponse) % 10 # 0

\* the session keys whose stored state a step creates or changes
ChangedKeys ==
  {k \in DOMAIN conversationStates' :
     k \notin DOMAIN conversationStates \/ conversationStates'[k] # conversationStates[k]}

SessionsAreIndependent ==
  /\ Cardinality(ChangedKeys) <= 1
  /\ \A s \in Slots :
       req'[s] # req[s] /\ req'[s].status = 200 => ChangedKeys \subseteq {req'[s].sessionId}
  /\ \A k \in DOMAIN conversationStates \ ChangedKeys :
       /\ conversationStates'[k].messages = conversationStates[k].messages
       /\ conversationStates'[k].scenario = conversationStates[k].scenario
       /\ conversationStates'[k].extractedData = conversationStates[k].extractedData

\* C19: every step of a turn on one session key leaves the turn sequence, the
\* scenario tag and the extracted parameters of every other key as they
\* were.
OtherSessionsUntouched == [][SessionsAreIndependent]_vars

\* turns on two keys in flight at once, both sessions holding turns
OtherSessionsUntouchedWitness ==
  \E s1, s2 \in Slots :
    /\ InFlight(s1) /\ InFlight(s2)
    /\ req[s1].sessionId # req[s2].sessionId
    /\ req[s1].pc = "round2" /\ req[s2].pc = "pacing"

TurnsAreKept ==
  \A k \in DOMAIN conversationStates :
    /\ k \in DOMAIN conversationStates'
    /\ Len(conversationStates'[k].messages) >= Len(conversationStates[k].messages)
    /\ SubSeq(conversationStates'[k].messages, 1, Len(conversationStates[k].messages))
         = conversationStates[k].messages

\* C20: every step leaves each session in the store and its turn sequence
\* as a prefix of the new one.
AppendOnly == [][TurnsAreKept]_vars

\* a second turn finished on a session that held a first one
AppendOnlyWitness ==
  \E s \in Slots :
    /\ req[s].pc = "done" /\ req[s].finals = 1 /\ req[s].rid >= 2
    /\ Len(Messages(req[s].sessionId)) >= 5

\* the extracted parameters stored under k, none before the session exists
DataOf(store, k) == IF k \in DOMAIN store THEN store[k].extractedData ELSE EmptyObject

\* the invocations of calls whose parsed payload is an object holding f
WritersOf(calls, f) ==
  {i \in DOMAIN calls :
     /\ calls[i].arguments.valid
     /\ ~ArgsIsNull(calls[i].arguments.value)
     /\ Has(calls[i].arguments.value, f)}

\* what a step writes into the extracted parameters of k: the extractor's
\* result on the user text it appended, the parsed payloads of the response
\* it dispatched, the later payload first, or nothing
StepWrites(k) ==
  IF \E s \in Slots : req[s].pc # "round1" /\ req'[s].pc = "round1" /\ req'[s].sessionId = k
  THEN LET m == conversationStates'[k].messages
       IN extractParameters(m[Len(m)].content)
  ELSE IF \E s \in Slots : req[s].pc = "round1" /\ req'[s].pc = "round2" /\ req[s].sessionId = k
  THEN LET s == CHOOSE s \in Slots :
                  req[s].pc = "round1" /\ req'[s].pc = "round2" /\ req[s].sessionId = k
           calls == req'[s].calls
           written == {f \in UNION {DOMAIN calls[i].arguments.value : i \in DOMAIN calls} :
                         WritersOf(calls, f) # {}}
       IN [f \in written |->
             calls[CHOOSE i \in WritersOf(calls, f) :
                     \A j \in WritersOf(calls, f) : j <= i].arguments.value[f]]
  ELSE EmptyObject

ExtractedDataIsMerged ==
  \A k \in DOMAIN conversationStates' :
    LET old == DataOf(conversationStates, k)
        new == DataOf(conversationStates', k)
        writes == StepWrites(k)
    IN /\ DOMAIN old \subseteq DOMAIN new
       /\ DOMAIN new = DOMAIN old \cup DOMAIN writes
       /\ \A f \in DOMAIN new :
            new[f] = IF f \in DOMAIN writes THEN writes[f] ELSE old[f]

\* C21: in every step the extracted parameters of a session keep every key
\* they held, take the value of the step's most recent write for the keys it
\* writes (the extractor's result on the user text, the parsed payloads of
\* the dispatched invocations), and keep the previous value of the others.
ExtractedDataMergedNotReplaced == [][ExtractedDataIsMerged]_vars

\* a key the extractor wrote was overwritten by a payload while another key
\* of the earlier write is still held
ExtractedDataMergedNotReplacedWitness ==
  \E k \in Sessions :
    LET data == conversationStates[k].extractedData
    IN /\ Has(data, "propertyPrice") /\ data["propertyPrice"] = 1500000
       /\ Has(data, "stayDuration") /\ Has(data, "downPayment")
       /\ \E i \in DOMAIN Messages(k) :
            /\ Messages(k)[i].role = "user"
            /\ Has(extractParameters(Messages(k)[i].content), "propertyPrice")

\* the dispatches recorded in session k: each tool turn with the invocation
\* of the assistant turn before it that carries its id, and the extracted
\* parameters and scenario are not part of the record
Dispatches(k) ==
  LET m == Messages(k)
  IN {[name |-> c.name, arguments |-> c.arguments, result |-> m[i].content[2]] :
        <<i, c>> \in
          {<<i, m[j].tool_calls[n]>> :
             <<i, j, n>> \in
               {x \in (DOMAIN m) \X (DOMAIN m) \X (1..BurstCalls) :
                  /\ m[x[1]].role = "tool" /\ x[2] < x[1]
                  /\ x[3] \in DOMAIN m[x[2]].tool_calls
                  /\ m[x[2]].tool_calls[x[3]].id = m[x[1]].tool_call_id}}}

\* C22: any two dispatches of the same tool name and the same argument
\* payload, in whatever session, turn, scenario and state of the extracted
\* parameters, hold the same result, and a parsed payload's result is the
\* dispatcher's value on the payload alone.
SamePayloadSameResult ==
  \A k1 \in Sessions, k2 \in Sessions :
    \A d1 \in Dispatches(k1), d2 \in Dispatches(k2) :
      /\ d1.name = d2.name /\ d1.arguments = d2.arguments => d1.result = d2.result
      /\ d1.arguments.valid =>
           \A sc \in Scenarios :
             d1.result = JSONStringify(ToolResultOf(d1.name, d1.arguments.value, sc))

\* the same payload dispatched in two turns of a session whose extracted
\* parameters differ between the two, holding a key the payload lacks
SamePayloadSameResultWitness ==
  \E s \in Slots :
    /\ req[s].rid >= 2 /\ req[s].pc = "round2"
    /\ Has(conversationStates[req[s].sessionId].extractedData, "tenure")
    /\ \E d1 \in Dispatches(req[s].sessionId), d2 \in Dispatches(req[s].sessionId) :
         /\ d1.name = d2.name /\ d1.arguments = d2.arguments /\ d1.arguments.valid
         /\ ~Has(d1.arguments.value, "tenure")
    /\ Cardinality({i \in DOMAIN Messages(req[s].sessionId) :
                      Messages(req[s].sessionId)[i].role = "tool"}) >= 2

\* once the transport of slot s has closed, a step sends no fragment, makes
\* no provider call and appends no turn for it
NoWorkAfterClose ==
  \A s \in Slots :
    req[s].cancelled /\ req'[s].rid = req[s].rid =>
      /\ req'[s].out = req[s].out
      /\ ~(req[s].pc = "round1" /\ req'[s].pc = "round2")
      /\ WrittenBy(req[s].sessionId, req[s].rid) =
           {i \in DOMAIN writers'[req[s].sessionId] :
              writers'[req[s].sessionId][i] = req[s].rid}

\* C23: after the caller's transport closes during a turn, the orchestrator
\* emits no further fragment, makes no further provider call and appends no
\* further turn for that turn, and the turns already appended stay.
ClosedTransportStopsWork == [][NoWorkAfterClose /\ TurnsAreKept]_vars

\* the calculation route has answered a request of this type with a result
Answered(type) ==
  calc.pc = "answered" /\ calc.status = 200 /\ JSONParse(calc.body).type = type
CalcInputs == JSONParse(calc.body).inputs
\* the supplied down payment is below 20% of the price
BelowMinimum(inputs) ==
  /\ inputs.downPayment.def
  /\ 100 * inputs.downPayment.v < MIN_DOWN_PAYMENT_PCT * inputs.propertyPrice

\* C24: for every propertyPrice > 0 and every supplied down payment (0,
\* omitted and below 20% of the price included) the mortgage result has a
\* loan-to-value of at most 0.80, and of exactly 0.80 when the supplied down
\* payment is below the minimum.
LTVCappedAndExactWhenRaised ==
  Answered("mortgage") /\ CalcInputs.propertyPrice > 0 =>
    /\ ~FLess(MAX_LTV, calc.data.ltv)
    /\ BelowMinimum(CalcInputs) => calc.data.ltv = MAX_LTV

\* C25: in every mortgage result loanAmount = propertyPrice - downPayment,
\* upfrontCosts = 7% of propertyPrice, totalUpfront = downPayment +
\* upfrontCosts and the tenure is min(supplied tenure, 25); price 1,500,000
\* with down payment 300,000 gives loanAmount 1,200,000, upfrontCosts 105,000
\* and totalUpfront 405,000.
MortgageFieldsAddUp ==
  Answered("mortgage") =>
    /\ calc.data.loanAmount = FSub(FFromInt(CalcInputs.propertyPrice), calc.data.downPayment)
    /\ calc.data.upfrontCosts = FDiv(FFromInt(7 * CalcInputs.propertyPrice), FFromInt(100))
    /\ calc.data.totalUpfront = FAdd(calc.data.downPayment, calc.data.upfrontCosts)
    /\ calc.data.tenure = Min(OrDefault(CalcInputs.tenure, 25), 25)
    /\ CalcInputs.propertyPrice = 1500000 /\ CalcInputs.downPayment = Some(300000) =>
         /\ calc.data.loanAmount = FFromInt(1200000)
         /\ calc.data.upfrontCosts = FFromInt(105000)
         /\ calc.data.totalUpfront = FFromInt(405000)

\* C26: the buy-versus-rent recommendation is 'rent' for a stay under 3
\* years, 'buy' for a stay over 5 years and 'neutral' for every stay from 3
\* to 5 years and for an omitted stay, whatever the price, the rent, the down
\* payment and the tenure.
StayAloneClassifies ==
  Answered("buy-vs-rent") =>
    calc.data.recommendation =
      IF CalcInputs.stayDuration.def /\ CalcInputs.stayDuration.v < 3 THEN "rent"
      ELSE IF CalcInputs.stayDuration.def /\ CalcInputs.stayDuration.v > 5 THEN "buy"
      ELSE "neutral"

\* a request without a stay duration is answered 'neutral'
StayAloneClassifiesWitness ==
  /\ Answered("buy-vs-rent")
  /\ ~CalcInputs.stayDuration.def
  /\ calc.data.recommendation = "neutral"

\* C29: for loanAmount > 0, annual rate >= 0 and tenureYears > 0 the EMI
\* returned is a finite number strictly greater than 0; for loanAmount <= 0,
\* tenureYears <= 0 or rate < 0 it is 0.
EMIPositiveAndFinite ==
  Answered("emi") =>
    IF /\ CalcInputs.loanAmount.v > 0
       /\ OrDefault(CalcInputs.interestRate, INTEREST_RATE) >= 0
       /\ OrDefault(CalcInputs.tenure, MAX_TENURE) > 0
    THEN calc.data.emi.k = "number" /\ FLess(Zero, calc.data.emi)
    ELSE calc.data.emi = Zero

\* the refinance invocations of slot s that were dispatched, and what the
\* dispatcher returned for invocation i
Refinanced(s) ==
  {i \in Parsed(s) : /\ req[s].calls[i].name = "calculate_refinance"
                      /\ ~ArgsIsNull(JSONParse(req[s].calls[i].arguments))}
ReturnedFor(s, i) ==
  ToolResultOf(req[s].calls[i].name, JSONParse(req[s].calls[i].arguments), req[s].scenario)
NumberFields ==
  {"currentEMI", "newEMI", "monthlySavings", "breakEvenMonths",
   "totalSavingsOverRemainingTenure"}
\* x <= 0 in JavaScript: false of NaN
NotPositive(x) == x # NaN /\ ~FLess(Zero, x)

\* C27: a refinance dispatch whose monthly savings, currentEMI - newEMI, are
\* not above zero recommends keeping the current loan and reports the
\* break-even as null, and no field of any refinance result, as returned
\* and as written into the tool turn, is an infinity.
NoSavingsNoBreakEven ==
  \A s \in Slots : \A i \in Refinanced(s) :
    /\ \A f \in NumberFields :
         ReturnedFor(s, i)[f] # Infinity /\ ResultOf(s, i)[f] # Infinity
    /\ ReturnedFor(s, i).currentEMI # NaN /\ ReturnedFor(s, i).newEMI # NaN
       /\ NotPositive(FSub(ReturnedFor(s, i).currentEMI, ReturnedFor(s, i).newEMI))
       => /\ ReturnedFor(s, i).recommendation = "keep_current"
          /\ ReturnedFor(s, i).breakEvenMonths = JsNull
          /\ ResultOf(s, i).recommendation = "keep_current"
          /\ ResultOf(s, i).breakEvenMonths = JsNull

\* a refinance at a higher rate was dispatched: the savings are negative
NoSavingsNoBreakEvenWitness ==
  \E s \in Slots : \E i \in Refinanced(s) :
    /\ ReturnedFor(s, i).monthlySavings # NaN
    /\ FLess(ReturnedFor(s, i).monthlySavings, Zero)
    /\ ResultOf(s, i).breakEvenMonths = JsNull

\* switchingCosts / monthlySavings < currentTenure * 12 in JavaScript, on
\* the arguments of a refinance invocation
BreaksEvenInTime(args, monthlySavings) ==
  /\ Field(args, "switchingCosts").def
  /\ Field(args, "currentTenure").def
  /\ FLess(FDiv(FFromInt(Field(args, "switchingCosts").v), monthlySavings),
           FFromInt(Field(args, "currentTenure").v * 12))

\* C28: the recommendation of a refinance result is 'refinance' if and only
\* if the monthly savings are above zero and switchingCosts / monthlySavings
\* is below currentTenure * 12, and 'keep_current' otherwise, also when the
\* break-even equals the remaining months exactly.
RefinanceIffBreaksEvenInTime ==
  \A s \in Slots : \A i \in Refinanced(s) :
    /\ ReturnedFor(s, i).recommendation \in {"refinance", "keep_current"}
    /\ ResultOf(s, i).recommendation = ReturnedFor(s, i).recommendation
    /\ ReturnedFor(s, i).recommendation = "refinance" <=>
         /\ IsPositive(ReturnedFor(s, i).monthlySavings)
         /\ BreaksEvenInTime(JSONParse(req[s].calls[i].arguments),
                             ReturnedFor(s, i).monthlySavings)

\* a refinance whose break-even is the remaining tenure, 240 months, to the
\* bit was dispatched
RefinanceIffBreaksEvenInTimeWitness ==
  \E s \in Slots : \E i \in Refinanced(s) :
    /\ IsPositive(ReturnedFor(s, i).monthlySavings)
    /\ ReturnedFor(s, i).breakEvenMonths =
         FFromInt(Field(JSONParse(req[s].calls[i].arguments), "currentTenure").v * 12)
    /\ ResultOf(s, i).recommendation = "keep_current"

\* the text of the user turn that ends session k, when one does
LastUserText(k) ==
  IF Messages(k)[Len(Messages(k))].role = "user"
  THEN Messages(k)[Len(Messages(k))].content ELSE <<>>

\* C30: the extractor keys a number on the vocabulary near it whatever the
\* word order: once the text "rent is 8k aed" is ingested the session holds
\* monthlyRent = 8000, and once "property 1.5m" is ingested it holds
\* propertyPrice = 1500000.
ExtractorIgnoresWordOrder ==
  \A k \in Sessions :
    /\ LastUserText(k) = <<"rent", "is", "8k", "aed">> =>
         /\ Has(conversationStates[k].extractedData, "monthlyRent")
         /\ conversationStates[k].extractedData["monthlyRent"] = 8000
    /\ LastUserText(k) = <<"property", "1.5m">> =>
         /\ Has(conversationStates[k].extractedData, "propertyPrice")
         /\ conversationStates[k].extractedData["propertyPrice"] = 1500000

\* the arguments of a tool invocation that carry the values of a direct
\* request's inputs
Supplied(inputs, fields) == [f \in {g \in fields : inputs[g].def} |-> inputs[f].v]
MortgageArgsOf(inputs) ==
  ObjectAssign([f \in {"propertyPrice"} |-> inputs.propertyPrice],
               Supplied(inputs, {"downPayment", "tenure"}))
BuyVsRentArgsOf(inputs) ==
  ObjectAssign([f \in {"propertyPrice", "monthlyRent"} |-> inputs[f]],
               Supplied(inputs, {"downPayment", "tenure", "stayDuration"}))
EMIArgsOf(inputs) ==
  [f \in {"currentLoanAmount"}
         \cup (IF inputs.interestRate.def THEN {"currentInterestRate"} ELSE {})
         \cup (IF inputs.tenure.def THEN {"currentTenure"} ELSE {}) |->
     IF f = "currentLoanAmount" THEN inputs.loanAmount.v
     ELSE IF f = "currentInterestRate" THEN inputs.interestRate.v
     ELSE inputs.tenure.v]

\* the data of a direct answer are what the dispatcher returns for the tool
\* of that kind on the same values (the dispatcher passes no interest rate
\* to the mortgage and to the buy-versus-rent functions, refuses a stay of
\* zero, and has calculateEMI under the refinance tool only)
SameAsDispatcher(type, inputs, data) ==
  /\ type = "mortgage" =>
       /\ "emi" \in DOMAIN data /\ "ltv" \in DOMAIN data
       /\ ~inputs.interestRate.def =>
            data = executeToolCall("calculate_mortgage", MortgageArgsOf(inputs), "")
  /\ type = "buy-vs-rent" =>
       /\ "recommendation" \in DOMAIN data
       /\ ~inputs.interestRate.def /\ inputs.stayDuration.def /\ inputs.stayDuration.v # 0 =>
            data = executeToolCall("analyze_buy_vs_rent", BuyVsRentArgsOf(inputs), "")
  /\ type = "emi" =>
       /\ DOMAIN data = {"emi"}
       /\ data.emi = executeToolCall("calculate_refinance", EMIArgsOf(inputs), "").currentEMI

\* the answer a holds is the one the route owes its body
DirectAnswer(a) ==
  IF ParseThrows(a.body) \/ "missing" \in DOMAIN JSONParse(a.body).inputs
  THEN ~a.success /\ a.data = [error |-> IF ParseThrows(a.body)
                                           \/ JSONParse(a.body).type \in CalculationTypes
                                        THEN "Calculation failed"
                                        ELSE "Invalid calculation type"]
  ELSE IF JSONParse(a.body).type \notin CalculationTypes
  THEN ~a.success /\ a.status = 400 /\ a.data = [error |-> "Invalid calculation type"]
  ELSE /\ a.success /\ a.status = 200
       /\ SameAsDispatcher(JSONParse(a.body).type, JSONParse(a.body).inputs, a.data)

DirectCalculationStep ==
  calc' # calc =>
    /\ UNCHANGED <<conversationStates, req, writers, started, apiKey>>
    /\ calc'.pc = "answered" => DirectAnswer(calc')

RejectedIn(s) == req'[s] # req[s] /\ req'[s].pc = "rejected"

\* C32: a step in which the chat route answers a request with an error
\* status instead of an event stream creates no session and appends no turn
\* to any session.
RejectionLeavesNoTrace ==
  [][\A s \in Slots : RejectedIn(s) => UNCHANGED <<conversationStates, writers>>]_vars

\* C33: whatever the interleaving of the turns in progress on one session
\* key, an assistant turn that carries n invocations is followed at the next
\* n positions of the turn sequence by the tool turns of its invocations, in
\* invocation order, all appended by the request that appended it: no turn
\* of another request lies between them.
InvocationBlockIsContiguous ==
  \A k \in Sessions : \A i \in DOMAIN Messages(k) :
    Messages(k)[i].tool_calls # <<>> =>
      /\ i + Len(Messages(k)[i].tool_calls) <= Len(Messages(k))
      /\ \A j \in DOMAIN Messages(k)[i].tool_calls :
           /\ Messages(k)[i + j].role = "tool"
           /\ Messages(k)[i + j].tool_call_id = Messages(k)[i].tool_calls[j].id
           /\ writers[k][i + j] = writers[k][i]

\* two turns on one key interleave: the block of two invocations of one
\* request lies between two turns of the other
InvocationBlockIsContiguousWitness ==
  \E k \in Sessions : \E i \in DOMAIN Messages(k) :
    /\ Len(Messages(k)[i].tool_calls) = 2
    /\ i + 3 <= Len(Messages(k))
    /\ writers[k][i - 1] # writers[k][i]
    /\ writers[k][i + 3] = writers[k][i - 1]

\* C34: an accepted turn has made one provider call without streaming and
\* with the scenario's tools; it has made a second call, a streaming one, if
\* and only if the first response named an invocation; it has made no third
\* call, none after a call failed, and a turn that dispatched invocations
\* dispatched those of the first response only.
OneRoundOfProviderCalls ==
  \A s \in Slots :
    req[s].status = 200 =>
      /\ Len(req[s].apiCalls) \in {1, 2}
      /\ ~req[s].apiCalls[1].stream
      /\ req[s].apiCalls[1].tools = req[s].tools /\ req[s].tools # <<>>
      /\ Len(req[s].apiCalls) = 2 <=> req[s].calls # <<>>
      /\ Len(req[s].apiCalls) = 2 => req[s].apiCalls[2].stream
      /\ req[s].failed = "round1" => Len(req[s].apiCalls) = 1
      /\ Cardinality({i \in WrittenBy(req[s].sessionId, req[s].rid) :
                        Messages(req[s].sessionId)[i].tool_calls # <<>>}) <= 1

\* a turn ended after its second call, and a turn ended by a failed call
OneRoundOfProviderCallsWitness ==
  \E s \in Slots :
    /\ req[s].pc = "done" /\ req[s].failed = "round2"
    /\ Len(req[s].apiCalls) = 2

\* the last turn of its session that the request of slot s appended
LastWritten(s) ==
  Messages(req[s].sessionId)[
    CHOOSE i \in WrittenBy(req[s].sessionId, req[s].rid) :
      \A j \in WrittenBy(req[s].sessionId, req[s].rid) : j <= i]
\* the characters of the text fragments of an event stream
Emitted(out) == {out[i].content[j] : <<i, j>> \in
                   {x \in (DOMAIN out) \X (1..MaxTextLen) :
                      out[x[1]].kind = "data" /\ x[2] \in DOMAIN out[x[1]].content}}

\* C35: a turn that ended without a failed provider call has appended, as
\* the last turn it wrote, one assistant turn whose content is the
\* concatenation, in order, of the text fragments it emitted, with and
\* without invocations; and no character of the round-1 content that came
\* with an invocation list is in any fragment emitted.
FinalTurnIsWhatWasEmitted ==
  \A s \in Slots :
    /\ req[s].pc = "done" /\ req[s].failed = "none" =>
         /\ req[s].finals = 1
         /\ IsNarrative(LastWritten(s))
         /\ LastWritten(s).content = Narrative(req[s].out, Len(req[s].out))
    /\ req[s].calls # <<>> =>
         \A c \in DOMAIN Messages(req[s].sessionId)[req[s].callsAt].content :
           Messages(req[s].sessionId)[req[s].callsAt].content[c] \notin Emitted(req[s].out)

\* a turn with an invocation ended after two chunks of the round-2 stream,
\* each forwarded as a fragment
FinalTurnIsWhatWasEmittedWitness ==
  \E s \in Slots :
    /\ req[s].pc = "done" /\ req[s].failed = "none" /\ req[s].calls # <<>>
    /\ Messages(req[s].sessionId)[req[s].callsAt].content # <<>>
    /\ LastWritten(s).content = <<"x", "y">>
    /\ Len(req[s].out) = 3

RECURSIVE Joined(_, _)
\* the lines of the bytes received: the two parts of a line cut by a chunk
\* boundary are one line
Joined(pieces, i) ==
  IF i > Len(pieces) THEN <<>>
  ELSE IF /\ i < Len(pieces)
          /\ pieces[i].part = "head" /\ pieces[i + 1] = TailOf(pieces[i])
  THEN <<[pieces[i] EXCEPT !.part = "whole"]>> \o Joined(pieces, i + 2)
  ELSE <<pieces[i]>> \o Joined(pieces, i + 1)

\* the contents of the fragments of an event stream, in order
Contents(out) ==
  [i \in 1..Cardinality({j \in DOMAIN out : out[j].kind = "data"}) |->
     out[CHOOSE j \in DOMAIN out :
           /\ out[j].kind = "data"
           /\ Cardinality({h \in 1..j : out[h].kind = "data"}) = i].content]

\* C38: whatever the cut of the provider's bytes into network chunks, a cut
\* inside a data line included, the parser has yielded, in order, the
\* non-empty content deltas of the data events received before the [DONE]
\* event, none after it, and none for an event that is not valid JSON.
YieldsIndependentOfChunking ==
  \A s \in Slots :
    /\ req[s].pc \in {"streaming", "done"} /\ req[s].calls # <<>>
    /\ req[s].failed = "none" /\ ~req[s].cancelled
    => Contents(req[s].out) = ParseLines(SplitLines(Joined(req[s].received, 1)), 1, <<>>).yields

\* the end markers of the event stream of slot s
Markers(s) == {i \in DOMAIN req[s].out : req[s].out[i].kind = "done"}
\* a step of the request that holds slot s, or of any other, after that
\* request emitted the end marker
AfterMarker(s) == HasMarker(s) /\ req'[s].rid = req[s].rid

\* C36: the event stream of a turn holds at most one end marker, which is
\* its last record; and in no step after the marker does the turn's request
\* emit a record or append a turn to a session.
EndMarkerIsFinal ==
  [][\A s \in Slots :
       /\ Markers(s)' \subseteq {Len(req'[s].out)} \ {0}
       /\ AfterMarker(s) =>
            /\ req'[s].out = req[s].out
            /\ req'[s].sessionId = req[s].sessionId
            /\ WrittenBy(req[s].sessionId, req[s].rid)'
                 = WrittenBy(req[s].sessionId, req[s].rid)]_vars

\* a turn has emitted the end marker after fragments, and the other turn on
\* its session went on appending turns after it
EndMarkerIsFinalWitness ==
  \E s \in Slots, t \in Slots :
    /\ HasMarker(s) /\ Len(req[s].out) >= 2 /\ req[s].finals = 1
    /\ s # t /\ req[t].sessionId = req[s].sessionId /\ InFlight(t)
    /\ writers[req[s].sessionId][Len(writers[req[s].sessionId])] = req[t].rid
    /\ \E i \in WrittenBy(req[s].sessionId, req[t].rid) :
         \A j \in WrittenBy(req[s].sessionId, req[s].rid) : j < i

\* the event stream of slot s has ended: closed, errored, or cancelled by
\* the caller, with the handler at its end
Terminated(s) ==
  req[s].pc = "done" /\ req[s].stream \in {"closed", "errored", "cancelled"}

\* C37: when every provider call returns or fails and every provider stream
\* is finite, every accepted turn eventually ends its event stream: closed
\* after the end marker, or errored, whatever the number of invocations and
\* the length of the narrative (a stream the caller closed first has ended
\* by that, and the handler reaches its end all the same).
EveryTurnTerminates ==
  \A s \in Slots :
    InFlight(s) ~> /\ Terminated(s)
                   /\ req[s].stream = "closed" => HasMarker(s)
                   /\ req[s].stream = "cancelled" => req[s].cancelled

\* a turn with BurstCalls invocations has closed its stream after the marker
EveryTurnTerminatesWitness ==
  \E s \in Slots :
    /\ Terminated(s) /\ req[s].stream = "closed" /\ HasMarker(s)
    /\ Len(req[s].calls) = BurstCalls

\* C39: every context window built for a provider call ends with the turn
\* that was the session's most recent when it was built, and a window built
\* from more than CONTEXT_WINDOW + 1 turns holds the CONTEXT_WINDOW most
\* recent of them; the round-1 window ends with the user turn the request
\* has just appended, the round-2 window with the tool result of the last
\* invocation of the turn.
WindowEndsWithLatestTurn ==
  \A s \in Slots :
    req[s].ctx # <<>> =>
      LET w == req[s].ctx
          n == req[s].ctxLen
          m == Messages(req[s].sessionId)
      IN /\ w[Len(w)] = m[n]
         /\ Trimmed(s) =>
              /\ Len(w) > CONTEXT_WINDOW
              /\ SubSeq(w, Len(w) - CONTEXT_WINDOW + 1, Len(w))
                   = SubSeq(m, n - CONTEXT_WINDOW + 1, n)
         /\ req[s].calls = <<>> =>
              /\ w[Len(w)].role = "user"
              /\ writers[req[s].sessionId][n] = req[s].rid
         /\ req[s].calls # <<>> =>
              /\ w[Len(w)].role = "tool"
              /\ w[Len(w)].tool_call_id = req[s].calls[Len(req[s].calls)].id
              /\ writers[req[s].sessionId][n] = req[s].rid

\* a trimmed round-2 window after two invocations or more that holds the
\* system turn and no more than the CONTEXT_WINDOW most recent turns
WindowEndsWithLatestTurnWitness ==
  \E s \in Slots :
    /\ Trimmed(s) /\ Len(req[s].calls) >= 2
    /\ Len(req[s].ctx) = CONTEXT_WINDOW + 1

====
